---- MODULE Spec2Model ----
(***************************************************************************)
(* Concurrent batch-execution core of the stock recommender:               *)
(*   src/src/batch/concurrent_manager.py  APIRateLimiter, ConcurrentManager*)
(*   src/src/batch/progress_tracker.py    ProgressTracker                  *)
(*   src/src/batch/batch_analyzer.py      BatchAnalyzer                    *)
(*   src/src/batch/input_parser.py        InputParser                      *)
(*                                                                         *)
(* Specifications:                                                         *)
(*   Spec         a client driving one ConcurrentManager with arbitrary    *)
(*                symbol lists, task functions and progress callbacks      *)
(*   BatchSpec    BatchAnalyzer.analyze_stocks driving manager + tracker   *)
(*   TrackerSpec  threads calling the ProgressTracker in any order         *)
(*   LimiterSpec  threads calling APIRateLimiter.acquire against a clock   *)
(*   ConfigSpec   analyze_stocks sizing its manager from len(symbols)      *)
(*   TwinSpec     two analyze_stocks runs that differ in the error texts   *)
(*   ParserSpec   InputParser normalizing raw symbols                      *)
(*   RetrySpec    one _execute_task_with_retry call, step by step          *)
(*   ManagerSpec  ConcurrentManager.__init__ over the api_rate_limit values*)
(*   LiveBatchSpec, LiveLimiterSpec  BatchSpec and LimiterSpec under       *)
(*                weakly fair threads                                      *)
(*   DisplaySpec  BatchSpec with the tracker's display thread              *)
(*   EstimateSpec ProgressStats.estimated_remaining over the snapshots     *)
(*   FleetSpec    two ConcurrentManager instances side by side             *)
(*   WideBatchSpec  analyze_stocks with more symbols than pool threads     *)
(***************************************************************************)
EXTENDS Integers, Sequences, FiniteSets, TLC

(* ------------------------------- bounds -------------------------------- *)
NumSymbols == 2
MaxWorkers == 2
MaxRetries == 2
BatchSize == 1
NumThreads == 2
MaxOps == 4
MaxInterval == 2
MaxGrants == 3
MaxTicks == 5
MaxStockCount == 60
MaxSymbolLen == 2
MaxRaw == 2
MaxRateLimit == 60
MaxTotal == 3
MaxElapsed == 4
MaxCalls == 2
FleetTicks == 2

Symbols == 1..NumSymbols
Threads == 1..NumThreads

IsUnique(s) == \A i, j \in 1..Len(s) : s[i] = s[j] => i = j

\* symbol lists handed to the engine: unique within a batch; symbols are
\* opaque keys, so one list of each length stands for all of them
SymbolLists == {[i \in 1..n |-> i] : n \in 0..NumSymbols}

SeqToSet(s) == {s[i] : i \in 1..Len(s)}

VARIABLES
    config,          \* ConcurrentManager.config
    executor,        \* ConcurrentManager.executor: "none" | "open"
    futures,         \* work items of the pool, in submission order
    running_tasks,   \* ConcurrentManager._running_tasks
    cpc,             \* position of the calling thread
    call,            \* arguments and future_to_symbol of the call in progress
    results,         \* local `results` of execute_concurrent
    yielded,         \* futures already produced by as_completed
    cur,             \* future being handled in the collection loop
    all_results,     \* local `all_results` of execute_batched
    rest,            \* symbols of the chunks execute_batched has not run yet
    outcome,         \* how the last execution call ended
    may_be_slow,     \* an invocation of the task function may outlast the aggregate timeout
    exited,          \* __exit__ has returned and the scope was not entered again
    apc,             \* position inside BatchAnalyzer.analyze_stocks
    tracker,         \* BatchAnalyzer.progress_tracker is set
    tasks,           \* ProgressTracker.tasks
    stats,           \* ProgressTracker.stats
    batch_result,    \* BatchAnalysisResult returned by analyze_stocks
    tlock,           \* ProgressTracker._lock: the thread holding it, 0 when free
    tpc,             \* position of each thread inside a ProgressTracker method
    top,             \* the ProgressTracker method each thread is in, and its argument
    snap,            \* the ProgressStats last returned to each thread
    nops,            \* ProgressTracker calls made so far; the tracker's clock
    transitions,     \* initialize, start_task, complete_task, fail_task calls that have returned
    seen,            \* what the last call of a reading method returned
    now,             \* time.time()
    min_interval,    \* APIRateLimiter.min_interval
    last_call_time,  \* APIRateLimiter.last_call_time
    rlock,           \* APIRateLimiter._lock: the thread holding it, 0 when free
    lpc,             \* position of each thread inside acquire()
    wake,            \* when each thread's time.sleep(sleep_time) may return
    grants,          \* the timestamps acquire() has recorded, in order
    symbol_count,    \* len(symbols) of an analyze_stocks call, -1 before the call
    scripts,         \* what task_func does at each attempt, per run and symbol
    runs,            \* what each of the two compared runs produced
    raw_symbols,     \* the raw symbols handed to the InputParser
    parsed,          \* what the InputParser returned
    ppc,             \* position of the InputParser call
    frame,           \* one pool thread inside _execute_task_with_retry, no callback given
    retry_delay,     \* ConcurrentConfig.retry_delay
    built,           \* a ConcurrentManager being constructed from an api_rate_limit
    display,         \* the progress display of a tracked analyze_stocks run
    estimate,        \* a ProgressStats snapshot whose estimated_remaining is read
    fleet            \* two ConcurrentManager instances, their limiters, pools and workers

mgrVars == <<config, executor, futures, running_tasks>>
callVars == <<cpc, call, results, yielded, cur, all_results, rest, outcome, may_be_slow, exited>>
trackerVars == <<tracker, tasks, stats>>
batchVars == <<apc, batch_result>>
threadVars == <<tlock, tpc, top, snap, nops, transitions, seen>>
limiterVars == <<now, min_interval, last_call_time, rlock, lpc, wake, grants>>
sizingVars == <<symbol_count>>
twinVars == <<scripts, runs>>
parserVars == <<raw_symbols, parsed, ppc>>
retryVars == <<frame, retry_delay>>
ctorVars == <<built>>
displayVars == <<display>>
estimateVars == <<estimate>>
fleetVars == <<fleet>>
auxVars == <<displayVars, estimateVars, fleetVars>>
fnVars == <<sizingVars, twinVars, parserVars, retryVars, ctorVars, auxVars>>
envVars == <<threadVars, limiterVars, fnVars>>

(* ----------------------------- value types ----------------------------- *)
\* ConcurrentConfig; only the fields that steer control flow are kept
ConcurrentConfig(mw, mr, bs) == [max_workers |-> mw, max_retries |-> mr, batch_size |-> bs]

\* TaskResult(symbol, success, result, error, attempts)
TaskResult(sym, ok, res, err, att) ==
    [symbol |-> sym, success |-> ok, result |-> res, error |-> err, attempts |-> att]

NoResult == TaskResult(0, FALSE, "none", "none", 0)

\* a work item: the Future plus the frame of _execute_task_with_retry
\* permits, invocations, hist and the n... fields record what the work item
\* did: permits obtained, task_func invocations and their outcomes, and
\* progress_callback invocations per status
NewFuture(sym, cb) ==
    [symbol |-> sym, cb |-> cb, pc |-> "queued", attempt |-> 0,
     last_error |-> "none", state |-> "pending", result |-> NoResult,
     permits |-> 0, invocations |-> 0, hist |-> <<>>,
     nRunning |-> 0, nCompleted |-> 0, nFailed |-> 0]

NoCall == [method |-> "none", symbols |-> <<>>, cb |-> "none", fts |-> {}, scope |-> FALSE]

\* how an execution call ended: returned a list or raised; scope tells
\* whether the manager held a pool when the call was made, after_exit
\* whether __exit__ had returned before it, unfinished the symbols that
\* had no result when the aggregate timeout struck
Outcome(kind, exc, res, method, symbols, scope, unfinished) ==
    [kind |-> kind, exc |-> exc, results |-> res, method |-> method,
     symbols |-> symbols, scope |-> scope, after_exit |-> exited,
     unfinished |-> unfinished]

NoOutcome ==
    [kind |-> "none", exc |-> "none", results |-> <<>>, method |-> "none",
     symbols |-> <<>>, scope |-> FALSE, after_exit |-> FALSE, unfinished |-> {}]

\* ProgressStats(): start_time -1 stands for None
NoStats ==
    [total_tasks |-> 0, completed |-> 0, failed |-> 0, running |-> 0, pending |-> 0,
     start_time |-> -1]

\* a float that is a quotient of two integers, kept exact: den = 0 stands
\* for a division that raised ZeroDivisionError
Rate(n, d) == [num |-> n, den |-> d]

Defined(q) == q.den # 0

\* equality of two quotients
RateEq(p, q) == Defined(p) /\ Defined(q) /\ p.num * q.den = q.num * p.den

IsZero(q) == Defined(q) /\ q.num = 0

success_rate_unguarded(st) == Rate(st.completed * 100, st.completed + st.failed)

\* ProgressStats.success_rate: 0.0 when nothing has finished, else
\* (completed / (completed + failed)) * 100
success_rate(st) ==
    IF st.completed + st.failed = 0
    THEN Rate(0, 1)
    ELSE Rate(st.completed * 100, st.completed + st.failed)

\* ProgressStats.completion_rate: 0.0 when there are no tasks, else
\* ((completed + failed) / total_tasks) * 100
completion_rate(st) ==
    IF st.total_tasks = 0
    THEN Rate(0, 1)
    ELSE Rate((st.completed + st.failed) * 100, st.total_tasks)

\* the locals of _execute_task_with_retry and what the thread has done:
\* log lists the permits obtained, the invocations of task_func with
\* their outcomes and the back-off sleeps, in order
Frame(symbol) ==
    [symbol |-> symbol, pc |-> "enter", attempt |-> 0, last_error |-> "none",
     result |-> NoResult, log |-> <<>>]

NoFrame == Frame(0)

\* ConcurrentManager(config) for a config with the given api_rate_limit:
\* state is "new" before __init__ ran, then "constructed" or "raised"
Manager(api_rate_limit, state, interval) ==
    [api_rate_limit |-> api_rate_limit, state |-> state, min_interval |-> interval]

NoManager == Manager(Rate(20, 100), "none", Rate(0, 1))

\* the display side of a ProgressTracker and of the analyze_stocks call
\* that owns it: the position of the display thread, _stop_display, the
\* position of the calling thread around the display, whether the thread
\* had ended when join returned, the caller position at which the last
\* progress line was printed, and the snapshot it showed
Display(thread, stop, main, joined, last_render_at, line) ==
    [thread |-> thread, stop |-> stop, main |-> main, joined |-> joined,
     last_render_at |-> last_render_at, line |-> line]

NoDisplay == Display("none", FALSE, "none", FALSE, "never", NoStats)

\* an Optional[timedelta] in microseconds; None is undefined
Timedelta(us) == [defined |-> TRUE, us |-> us]
NoTimedelta == [defined |-> FALSE, us |-> 0]

\* a snapshot, the clock at which estimated_remaining is read, and the
\* value read
Estimate(st, clock, value, pc) == [stats |-> st, clock |-> clock, value |-> value, pc |-> pc]

NoEstimate == Estimate(NoStats, 0, NoTimedelta, "none")

\* no manager instances
NoFleet == [clock |-> 0, limiter |-> << >>, pool |-> << >>, calls |-> << >>,
            pools_made |-> 0, permits |-> 0, w |-> << >>]

\* the result dict parse_input starts from
NoParse ==
    [symbols |-> <<>>, source |-> "", original_count |-> 0, valid_count |-> 0, errors |-> <<>>]

NoBatchResult == [total_stocks |-> 0, successful |-> <<>>, failed |-> <<>>, success_rate |-> Rate(0, 1)]

NoOp == [op |-> "none", symbol |-> 0, symbols |-> <<>>]

\* a ProgressStats returned by get_current_stats, with the number of
\* transitions that had returned when it was taken
NoSnapshot == [valid |-> FALSE, stats |-> NoStats, version |-> -1]

\* what a reading method returned: the symbols of the tasks it lists, or
\* the flag of is_completed
NoValue == [op |-> "none", symbols |-> {}, flag |-> FALSE]

(* --------------------------- ProgressTracker --------------------------- *)
\* AnalysisTask(symbol=symbol): a fresh task is pending and carries no payload
AnalysisTask == [status |-> "pending", error_message |-> "none", result |-> "none"]

DecPending(st) == [st EXCEPT !.pending = @ - 1]
IncRunningMissing(st) == st
IncRunning(st) == [st EXCEPT !.running = @ + 1]
DecRunningMissing(st) == st
DecRunning(st) == [st EXCEPT !.running = @ - 1]
IncCompleted(st) == [st EXCEPT !.completed = @ + 1]
IncFailed(st) == [st EXCEPT !.failed = @ + 1]

\* ProgressTracker.initialize: the state left when the lock is released
initialize(symbols) ==
    [tasks |-> [s \in SeqToSet(symbols) |-> AnalysisTask],
     stats |-> [NoStats EXCEPT !.total_tasks = Len(symbols), !.pending = Len(symbols),
                               !.start_time = now]]

\* ProgressTracker.start_task: the state left when the lock is released
start_task(tk, st, symbol) ==
    IF symbol \in DOMAIN tk
    THEN [tasks |-> [tk EXCEPT ![symbol].status = "running"],
          stats |-> IncRunning(DecPending(st))]
    ELSE [tasks |-> tk, stats |-> st]

\* ProgressTracker.complete_task
complete_task(tk, st, symbol, result) ==
    IF symbol \in DOMAIN tk
    THEN [tasks |-> [tk EXCEPT ![symbol].status = "completed", ![symbol].result = result],
          stats |-> IncCompleted(DecRunning(st))]
    ELSE [tasks |-> tk, stats |-> st]

\* ProgressTracker.fail_task
fail_task(tk, st, symbol, error) ==
    IF symbol \in DOMAIN tk
    THEN [tasks |-> [tk EXCEPT ![symbol].status = "failed", ![symbol].error_message = error],
          stats |-> IncFailed(DecRunning(st))]
    ELSE [tasks |-> tk, stats |-> st]

\* the symbols of the tasks in a status
WithStatus(tk, status) == {s \in DOMAIN tk : tk[s].status = status}

\* the truth value of a result payload: None and the empty dict are false
Truthy(result) == result \notin {"none", "empty_dict"}

\* ProgressTracker.get_completed_results: the payloads of the completed
\* tasks whose payload is true, in the order the tasks were inserted
get_completed_results(tk) ==
    LET listed == SelectSeq([k \in 1..Cardinality(DOMAIN tk) |-> k],
                            LAMBDA sym : tk[sym].status = "completed" /\ Truthy(tk[sym].result))
    IN  [k \in 1..Len(listed) |-> tk[listed[k]].result]

\* BatchAnalyzer._progress_callback(symbol, status); it never raises
_progress_callback(symbol, status) ==
    IF tracker
    THEN LET new == CASE status = "running" -> start_task(tasks, stats, symbol)
                      [] status = "completed" -> complete_task(tasks, stats, symbol, "empty_dict")
                      [] status = "failed" -> fail_task(tasks, stats, symbol, "analysis_failed")
                      [] OTHER -> [tasks |-> tasks, stats |-> stats]
         IN  /\ tasks' = new.tasks
             /\ stats' = new.stats
             /\ UNCHANGED tracker
    ELSE UNCHANGED trackerVars

\* progress_callback(symbol, status) as execute_concurrent sees it: the
\* analyzer's callback ("batch") updates the tracker and returns; a
\* caller-supplied callback ("any") may return or raise
progress_callback(cb, symbol, status, raises) ==
    IF cb = "batch"
    THEN raises = FALSE /\ _progress_callback(symbol, status)
    ELSE UNCHANGED trackerVars

(* ------------------------- ConcurrentManager --------------------------- *)
FutureIds == 1..Len(futures)

\* pool threads currently running a work item
Active == {i \in FutureIds : futures[i].pc \notin {"queued", "finished"}}

\* Future.set_result / Future.set_exception
SetResult(f, r) == [f EXCEPT !.pc = "finished", !.state = "result", !.result = r]
SetException(f) == [f EXCEPT !.pc = "finished", !.state = "exception"]

StartTaskNoNotify(i) ==
    /\ i \in FutureIds
    /\ futures[i].pc = "queued"
    /\ \A j \in 1..(i - 1) : futures[j].pc # "queued"
    /\ Cardinality(Active) < config.max_workers
    /\ running_tasks' = running_tasks \cup {futures[i].symbol}
    /\ futures' = [futures EXCEPT ![i].pc = "acquire", ![i].attempt = 1]
    /\ UNCHANGED <<config, executor>>
    /\ UNCHANGED <<callVars, trackerVars, batchVars, envVars>>

\* a pool thread takes the oldest queued work item and enters
\* _execute_task_with_retry: the symbol joins _running_tasks
StartTask(i) ==
    /\ i \in FutureIds
    /\ futures[i].pc = "queued"
    /\ \A j \in 1..(i - 1) : futures[j].pc # "queued"
    /\ Cardinality(Active) < config.max_workers
    /\ running_tasks' = running_tasks \cup {futures[i].symbol}
    /\ futures' = [futures EXCEPT ![i].pc = IF futures[i].cb = "none" THEN "acquire" ELSE "notify",
                                  ![i].attempt = 1]
    /\ UNCHANGED <<config, executor>>
    /\ UNCHANGED <<callVars, trackerVars, batchVars, envVars>>

\* progress_callback(symbol, "running"), once, before the retry loop; an
\* exception of the callback leaves the function and becomes the future's
\* exception
NotifyRunning(i, raises) ==
    /\ i \in FutureIds
    /\ futures[i].pc = "notify"
    /\ progress_callback(futures[i].cb, futures[i].symbol, "running", raises)
    /\ futures' = [futures EXCEPT ![i] =
           LET f == [@ EXCEPT !.nRunning = @ + 1]
           IN  IF raises THEN SetException(f) ELSE [f EXCEPT !.pc = "acquire"]]
    /\ UNCHANGED <<config, executor, running_tasks>>
    /\ UNCHANGED <<callVars, batchVars, envVars>>

BeginAttemptRenotify(i) ==
    /\ i \in FutureIds
    /\ futures[i].pc = "acquire"
    /\ futures' = [futures EXCEPT ![i].pc = "in_call",
                                  ![i].nRunning = IF futures[i].cb = "none" \/ futures[i].attempt = 1
                                                  THEN @ ELSE @ + 1,
                                  ![i].permits = @ + 1, ![i].invocations = @ + 1]
    /\ UNCHANGED <<config, executor, running_tasks>>
    /\ UNCHANGED <<callVars, trackerVars, batchVars, envVars>>

\* an attempt of the retry loop begins: self.rate_limiter.acquire() returns
\* and task_func(symbol) is entered
BeginAttempt(i) ==
    /\ i \in FutureIds
    /\ futures[i].pc = "acquire"
    /\ futures' = [futures EXCEPT ![i].pc = "in_call",
                                  ![i].permits = @ + 1, ![i].invocations = @ + 1]
    /\ UNCHANGED <<config, executor, running_tasks>>
    /\ UNCHANGED <<callVars, trackerVars, batchVars, envVars>>

\* the TaskResult of a successful attempt
SuccessResult(symbol, attempt) == TaskResult(symbol, TRUE, "data", "none", attempt)

\* the TaskResult after the last attempt failed
FailedResult(symbol, last_error, max_retries) ==
    TaskResult(symbol, FALSE, "none", last_error, max_retries)

\* task_func(symbol) returns: the symbol leaves _running_tasks and the
\* successful TaskResult is the future's result
TaskReturns(i) ==
    /\ i \in FutureIds
    /\ futures[i].pc = "in_call"
    /\ running_tasks' = running_tasks \ {futures[i].symbol}
    /\ futures' = [futures EXCEPT ![i] =
           SetResult([@ EXCEPT !.hist = Append(@, "ok")],
                     SuccessResult(futures[i].symbol, futures[i].attempt))]
    /\ UNCHANGED <<config, executor>>
    /\ UNCHANGED <<callVars, trackerVars, batchVars, envVars>>

TaskRaisesNoRetry(i) ==
    /\ i \in FutureIds
    /\ futures[i].pc = "in_call"
    /\ LET f == [futures[i] EXCEPT !.last_error = "task_error",
                                   !.hist = Append(@, "raise")]
       IN  /\ futures' = [futures EXCEPT ![i] =
                  SetResult(f, FailedResult(f.symbol, f.last_error, f.attempt))]
           /\ running_tasks' = running_tasks \ {futures[i].symbol}
    /\ UNCHANGED <<config, executor>>
    /\ UNCHANGED <<callVars, trackerVars, batchVars, envVars>>

\* task_func(symbol) raises: while attempts remain the worker sleeps
\* retry_delay * attempt and is back at the top of the loop, otherwise it
\* leaves the loop and returns the failed TaskResult
TaskRaises(i) ==
    /\ i \in FutureIds
    /\ futures[i].pc = "in_call"
    /\ LET f == [futures[i] EXCEPT !.last_error = "task_error",
                                   !.hist = Append(@, "raise")]
       IN  IF futures[i].attempt < config.max_retries
           THEN /\ futures' = [futures EXCEPT ![i] = [f EXCEPT !.pc = "acquire", !.attempt = @ + 1]]
                /\ UNCHANGED running_tasks
           ELSE /\ futures' = [futures EXCEPT ![i] =
                       SetResult(f, FailedResult(f.symbol, f.last_error, config.max_retries))]
                /\ running_tasks' = running_tasks \ {futures[i].symbol}
    /\ UNCHANGED <<config, executor>>
    /\ UNCHANGED <<callVars, trackerVars, batchVars, envVars>>

(* -------------------- the calling thread: scope ------------------------ *)
\* ConcurrentManager.__enter__: a fresh pool
Enter ==
    /\ cpc = "idle"
    /\ apc = "none"
    /\ executor = "none"
    /\ executor' = "open"
    /\ exited' = FALSE
    /\ UNCHANGED <<config, futures, running_tasks>>
    /\ UNCHANGED <<cpc, call, results, yielded, cur, all_results, rest, outcome, may_be_slow>>
    /\ UNCHANGED <<trackerVars, batchVars, envVars>>

\* ConcurrentManager.__exit__ is entered: executor.shutdown(wait=True) starts
\* waiting; queued work items still run
ExitBegin ==
    /\ cpc = "idle"
    /\ apc = "none"
    /\ executor = "open"
    /\ cpc' = "exiting"
    /\ UNCHANGED mgrVars
    /\ UNCHANGED <<call, results, yielded, cur, all_results, rest, outcome, may_be_slow, exited>>
    /\ UNCHANGED <<trackerVars, batchVars, envVars>>

\* every work item of the pool has finished
PoolDrained == \A i \in FutureIds : futures[i].pc = "finished"

\* shutdown(wait=True) returns once the pool is drained; executor = None
ExitEnd ==
    /\ cpc = "exiting"
    /\ PoolDrained
    /\ executor' = "none"
    /\ exited' = TRUE
    /\ cpc' = "idle"
    /\ UNCHANGED <<config, futures, running_tasks>>
    /\ UNCHANGED <<call, results, yielded, cur, all_results, rest, outcome, may_be_slow>>
    /\ UNCHANGED <<trackerVars, batchVars, envVars>>

(* --------------- the calling thread: execute_concurrent ---------------- *)
\* the execution call ends: its locals are gone, the outcome is the
\* caller's
EndCall(o) ==
    /\ outcome' = o
    /\ cpc' = "idle"
    /\ call' = NoCall
    /\ results' = <<>>
    /\ yielded' = {}
    /\ cur' = 0
    /\ all_results' = <<>>
    /\ rest' = <<>>

IsUnfinished(f) == f.pc # "finished"

\* the pool's work items that still matter: finished futures of earlier
\* calls are unreachable once those calls' locals are gone
Unfinished(fs) == SelectSeq(fs, IsUnfinished)

\* a new call is made once the work items a timed-out call left behind
\* have finished
HasRoom(symbols) == Unfinished(futures) = <<>>

\* execute_concurrent up to the collection loop: the scope check, then one
\* executor.submit per symbol
execute_concurrent(method, symbols, chunk, cb, remaining, acc) ==
    IF executor = "none"
    THEN /\ EndCall(Outcome("raised", "RuntimeError", <<>>, method, symbols, FALSE, {}))
         /\ UNCHANGED mgrVars
    ELSE /\ futures' = Unfinished(futures) \o [k \in 1..Len(chunk) |-> NewFuture(chunk[k], cb)]
         /\ call' = [method |-> method, symbols |-> symbols, cb |-> cb,
                     fts |-> (Len(Unfinished(futures)) + 1)..(Len(Unfinished(futures)) + Len(chunk)),
                     scope |-> TRUE]
         /\ cpc' = "collect"
         /\ results' = <<>>
         /\ yielded' = {}
         /\ cur' = 0
         /\ rest' = remaining
         /\ all_results' = acc
         /\ outcome' = NoOutcome
         /\ UNCHANGED <<config, executor, running_tasks>>

\* a caller invokes manager.execute_concurrent(symbols, task_func, cb)
CallExecuteConcurrent(symbols, cb) ==
    /\ cpc = "idle"
    /\ apc = "none"
    /\ HasRoom(symbols)
    /\ execute_concurrent("concurrent", symbols, symbols, cb, <<>>, <<>>)
    /\ UNCHANGED <<may_be_slow, exited>>
    /\ UNCHANGED <<trackerVars, batchVars, envVars>>

ErrorResultDefaultAttempts(symbol, max_retries) ==
    TaskResult(symbol, FALSE, "none", "task_execution_exception", 1)

\* the TaskResult built by the except branch of the collection loop
ErrorResult(symbol, max_retries) ==
    TaskResult(symbol, FALSE, "none", "task_execution_exception", max_retries)

Unyielded == call.fts \ yielded

\* as_completed yields a finished future; future.result() returns the
\* TaskResult, which is appended, or re-raises the worker's exception, for
\* which the except branch appends a failure result
Collect(i) ==
    /\ cpc = "collect"
    /\ i \in Unyielded
    /\ futures[i].pc = "finished"
    /\ yielded' = yielded \cup {i}
    /\ cur' = i
    /\ IF futures[i].state = "result"
       THEN /\ results' = Append(results, futures[i].result)
            /\ cpc' = IF call.cb = "none" THEN "collect" ELSE "cb_terminal"
       ELSE /\ results' = Append(results, ErrorResult(futures[i].symbol, config.max_retries))
            /\ cpc' = IF call.cb = "none" THEN "collect" ELSE "cb_handler"
    /\ UNCHANGED mgrVars
    /\ UNCHANGED <<call, all_results, rest, outcome, may_be_slow, exited>>
    /\ UNCHANGED <<trackerVars, batchVars, envVars>>

TerminalStatus(r) == IF r.success THEN "completed" ELSE "failed"

CountCallback(f, status) ==
    IF status = "completed" THEN [f EXCEPT !.nCompleted = @ + 1] ELSE [f EXCEPT !.nFailed = @ + 1]

\* progress_callback(symbol, "completed" | "failed") inside the try block;
\* if it raises, the except branch appends a failure result for the symbol
NotifyTerminal(raises) ==
    /\ cpc = "cb_terminal"
    /\ LET status == TerminalStatus(futures[cur].result)
       IN  /\ progress_callback(call.cb, futures[cur].symbol, status, raises)
           /\ futures' = [futures EXCEPT ![cur] = CountCallback(@, status)]
    /\ IF raises
       THEN /\ results' = Append(results, ErrorResult(futures[cur].symbol, config.max_retries))
            /\ cpc' = "cb_handler"
       ELSE /\ results' = results
            /\ cpc' = "collect"
    /\ UNCHANGED <<config, executor, running_tasks>>
    /\ UNCHANGED <<call, yielded, cur, all_results, rest, outcome, may_be_slow, exited>>
    /\ UNCHANGED <<batchVars, envVars>>

\* progress_callback(symbol, "failed") inside the except branch; if it
\* raises, the exception leaves execute_concurrent
NotifyFailedInHandler(raises) ==
    /\ cpc = "cb_handler"
    /\ progress_callback(call.cb, futures[cur].symbol, "failed", raises)
    /\ futures' = [futures EXCEPT ![cur] = CountCallback(@, "failed")]
    /\ IF raises
       THEN EndCall(Outcome("raised", "CallbackError", <<>>, call.method, call.symbols, TRUE, {}))
       ELSE /\ cpc' = "collect"
            /\ UNCHANGED <<call, results, yielded, cur, all_results, rest, outcome>>
    /\ UNCHANGED <<config, executor, running_tasks>>
    /\ UNCHANGED <<may_be_slow, exited>>
    /\ UNCHANGED <<batchVars, envVars>>

\* a future of the call that may still be unfinished when the aggregate
\* timeout strikes: the task function can be that slow and the future is
\* inside an invocation, or queued behind a pool whose threads all are
Stalled(i) ==
    /\ may_be_slow
    /\ \/ futures[i].pc = "in_call"
       \/ /\ futures[i].pc = "queued"
          /\ Cardinality(Active) = config.max_workers
          /\ \A j \in Active : futures[j].pc = "in_call"

\* as_completed(..., timeout=len(symbols) * timeout_per_task) raises
\* TimeoutError while futures are pending; the for statement is outside
\* the try block, so the error leaves execute_concurrent
Timeout ==
    /\ cpc = "collect"
    /\ \E i \in Unyielded : Stalled(i)
    /\ EndCall(Outcome("raised", "TimeoutError", <<>>, call.method, call.symbols, TRUE,
                       {futures[i].symbol : i \in {j \in Unyielded : futures[j].pc # "finished"}}))
    /\ UNCHANGED mgrVars
    /\ UNCHANGED <<may_be_slow, exited>>
    /\ UNCHANGED <<trackerVars, batchVars, envVars>>

\* the collection loop is exhausted: return results; inside execute_batched
\* the chunk's results are added to all_results and the next chunk follows
ReturnResults ==
    /\ cpc = "collect"
    /\ Unyielded = {}
    /\ IF call.method = "batched"
       THEN IF rest # <<>>
            THEN /\ all_results' = all_results \o results
                 /\ cpc' = "batch_pause"
                 /\ UNCHANGED <<call, results, yielded, cur, rest, outcome>>
            ELSE EndCall(Outcome("returned", "none", all_results \o results,
                                 call.method, call.symbols, TRUE, {}))
       ELSE EndCall(Outcome("returned", "none", results, call.method, call.symbols, TRUE, {}))
    /\ UNCHANGED mgrVars
    /\ UNCHANGED <<may_be_slow, exited>>
    /\ UNCHANGED <<trackerVars, batchVars, envVars>>

(* ---------------- the calling thread: execute_batched ------------------ *)
Min(a, b) == IF a < b THEN a ELSE b

\* symbols[i:i + batch_size] for the first chunk of what is left
FirstChunk(symbols, batch_size) == SubSeq(symbols, 1, Min(batch_size, Len(symbols)))
AfterFirstChunk(symbols, batch_size) == SubSeq(symbols, Min(batch_size, Len(symbols)) + 1, Len(symbols))

\* a caller invokes manager.execute_batched(symbols, task_func, cb): the
\* loop over range(0, len(symbols), batch_size) calls execute_concurrent
\* for the first chunk; with no symbols the loop body never runs
CallExecuteBatched(symbols, cb) ==
    /\ cpc = "idle"
    /\ apc = "none"
    /\ HasRoom(symbols)
    /\ IF symbols = <<>>
       THEN /\ EndCall(Outcome("returned", "none", <<>>, "batched", symbols, executor # "none", {}))
            /\ UNCHANGED mgrVars
       ELSE execute_concurrent("batched", symbols, FirstChunk(symbols, config.batch_size), cb,
                               AfterFirstChunk(symbols, config.batch_size), <<>>)
    /\ UNCHANGED <<may_be_slow, exited>>
    /\ UNCHANGED <<trackerVars, batchVars, envVars>>

\* time.sleep(0.5) between chunks is over: execute_concurrent for the
\* next chunk
NextChunk ==
    /\ cpc = "batch_pause"
    /\ execute_concurrent("batched", call.symbols, FirstChunk(rest, config.batch_size), call.cb,
                          AfterFirstChunk(rest, config.batch_size), all_results)
    /\ UNCHANGED <<may_be_slow, exited>>
    /\ UNCHANGED <<trackerVars, batchVars, envVars>>

(* ------------------------------ Spec ----------------------------------- *)
\* the configurations a manager is constructed with; chunks of
\* execute_batched have BatchSize symbols
Configs ==
    {ConcurrentConfig(mw, mr, BatchSize) : mw \in 1..MaxWorkers, mr \in 1..MaxRetries}

Callbacks == {"none", "any"}

\* no sizing call has been made
SizingIdle == symbol_count = -1

\* no runs are being compared
TwinIdle ==
    /\ scripts = <<>>
    /\ runs = <<>>

\* the InputParser has not been called
ParserIdle ==
    /\ raw_symbols = <<>>
    /\ parsed = NoParse
    /\ ppc = "idle"

\* no retry loop is being followed
RetryIdle ==
    /\ frame = NoFrame
    /\ retry_delay = 1

\* no manager is being constructed
CtorIdle == built = NoManager

\* no progress display was started
DisplayIdle == display = NoDisplay

\* no estimate is being read
EstimateIdle == estimate = NoEstimate

\* no second manager exists
FleetIdle == fleet = NoFleet

AuxIdle == DisplayIdle /\ EstimateIdle /\ FleetIdle

FnIdle ==
    /\ SizingIdle
    /\ TwinIdle
    /\ ParserIdle
    /\ RetryIdle
    /\ CtorIdle
    /\ AuxIdle

\* no thread is inside the tracker or the rate limiter
ThreadsIdle ==
    /\ tlock = 0
    /\ tpc = [t \in Threads |-> "idle"]
    /\ top = [t \in Threads |-> NoOp]
    /\ snap = [t \in Threads |-> NoSnapshot]
    /\ nops = 0
    /\ transitions = 0
    /\ seen = NoValue
    /\ now = MaxInterval + 1
    /\ min_interval = 0
    /\ last_call_time = 0
    /\ rlock = 0
    /\ lpc = [t \in Threads |-> "idle"]
    /\ wake = [t \in Threads |-> 0]
    /\ grants = <<>>

EnvIdle ==
    /\ ThreadsIdle
    /\ FnIdle

Init ==
    /\ EnvIdle
    /\ config \in Configs
    /\ executor = "none"
    /\ futures = <<>>
    /\ running_tasks = {}
    /\ cpc = "idle"
    /\ call = NoCall
    /\ results = <<>>
    /\ yielded = {}
    /\ cur = 0
    /\ all_results = <<>>
    /\ rest = <<>>
    /\ outcome = NoOutcome
    /\ may_be_slow = TRUE
    /\ exited = FALSE
    /\ apc = "none"
    /\ tracker = FALSE
    /\ tasks = << >>
    /\ stats = NoStats
    /\ batch_result = NoBatchResult

Worker ==
    \/ \E i \in FutureIds : StartTask(i)
    \/ \E i \in FutureIds, raises \in BOOLEAN : NotifyRunning(i, raises)
    \/ \E i \in FutureIds : BeginAttempt(i)
    \/ \E i \in FutureIds : TaskReturns(i)
    \/ \E i \in FutureIds : TaskRaises(i)

Collector ==
    \/ \E i \in FutureIds : Collect(i)
    \/ \E raises \in BOOLEAN : NotifyTerminal(raises)
    \/ \E raises \in BOOLEAN : NotifyFailedInHandler(raises)
    \/ Timeout
    \/ ReturnResults

Client ==
    \/ Enter
    \/ ExitBegin
    \/ ExitEnd
    \/ \E symbols \in SymbolLists, cb \in Callbacks : CallExecuteConcurrent(symbols, cb)
    \/ \E symbols \in SymbolLists, cb \in Callbacks : CallExecuteBatched(symbols, cb)
    \/ NextChunk

Next == Worker \/ Collector \/ Client

vars == <<mgrVars, callVars, trackerVars, batchVars, envVars>>

Spec == Init /\ [][Next]_vars

(* ======================= properties under Spec ========================= *)
ResultsFor(res, symbol) == {k \in 1..Len(res) : res[k].symbol = symbol}

OnePerSymbol(res, symbols) ==
    /\ Len(res) = Len(symbols)
    /\ \A k \in 1..Len(symbols) : Cardinality(ResultsFor(res, symbols[k])) = 1

ReturnedConcurrent ==
    outcome.kind = "returned" /\ outcome.method = "concurrent" /\ outcome.scope

\* C1: an execute_concurrent call made inside the scope that returns,
\* returns exactly one TaskResult per submitted symbol, none missing and
\* none twice, whatever the task function and the progress callback do
C1_OneResultPerSymbol ==
    ReturnedConcurrent => OnePerSymbol(outcome.results, outcome.symbols)

\* every TaskResult the engine has produced so far: collected, accumulated
\* over chunks, or returned
ProducedResults ==
    {results[k] : k \in 1..Len(results)}
        \cup {all_results[k] : k \in 1..Len(all_results)}
        \cup {outcome.results[k] : k \in 1..Len(outcome.results)}

\* C2: every TaskResult collected or returned by execute_concurrent and
\* execute_batched has 1 <= attempts <= max_retries, and a failed one has
\* attempts = max_retries
C2_AttemptsWithinRetries ==
    \A r \in ProducedResults :
        /\ 1 <= r.attempts
        /\ r.attempts <= config.max_retries
        /\ ~r.success => r.attempts = config.max_retries

\* a call returned both a task that succeeded on its second attempt and a
\* failed task, under max_retries = 2
C2_Witness ==
    /\ outcome.kind = "returned"
    /\ config.max_retries = 2
    /\ OnePerSymbol(outcome.results, outcome.symbols)
    /\ \E k \in 1..Len(outcome.results) :
           outcome.results[k].success /\ outcome.results[k].attempts = 2
    /\ \E k \in 1..Len(outcome.results) : ~outcome.results[k].success

\* C5: when the aggregate timeout strikes while tasks are unfinished,
\* execute_concurrent returns a list in which every unfinished task is a
\* failed TaskResult, and does not raise
C5_TimeoutYieldsFailedResults ==
    outcome.unfinished # {} =>
        /\ outcome.kind = "returned"
        /\ \A s \in outcome.unfinished :
               \E k \in 1..Len(outcome.results) :
                   outcome.results[k].symbol = s /\ ~outcome.results[k].success

\* an execution call was made while the manager held no pool
CalledOutsideScope == outcome.kind # "none" /\ ~outcome.scope

\* C6: an execution call made outside the acquired scope raises to the
\* caller, for every symbol list, and returns no result list
C6_OutsideScopeRaises ==
    CalledOutsideScope => outcome.kind = "raised" /\ outcome.exc = "RuntimeError"

\* C7: once __exit__ has returned, no work item of the pool is unfinished,
\* the manager holds no pool, and an execution call made afterwards is
\* rejected as scope misuse
C7_ExitReleasesScope ==
    exited =>
        /\ PoolDrained
        /\ executor = "none"
        /\ (outcome.kind # "none" /\ outcome.after_exit) => outcome.kind = "raised"

\* the part of C7 that does not depend on how calls outside the scope end
ExitWaitsForWork == exited => PoolDrained /\ executor = "none" /\ running_tasks \subseteq Symbols

\* C8: for a task submitted with a progress callback, "running" is
\* reported exactly once, before the first permit is acquired, and never
\* again on a retry
C8_RunningReportedOnce ==
    \A i \in FutureIds :
        futures[i].cb # "none" =>
            /\ futures[i].nRunning <= 1
            /\ futures[i].pc \in {"queued", "notify"} =>
                   futures[i].nRunning = 0 /\ futures[i].permits = 0
            /\ futures[i].pc \notin {"queued", "notify"} => futures[i].nRunning = 1

\* a task with a callback is in its second attempt
C8_Witness ==
    \E i \in FutureIds :
        /\ futures[i].cb # "none"
        /\ futures[i].attempt = 2
        /\ futures[i].permits = 2
        /\ futures[i].nRunning = 1

\* the tasks of the pool that have started and not yet finished
InFlight == {i \in FutureIds : futures[i].pc \notin {"queued", "finished"}}

\* the chunk of execute_batched a symbol of the list belongs to
ChunkOf(symbols, symbol) ==
    ((CHOOSE k \in 1..Len(symbols) : symbols[k] = symbol) - 1) \div config.batch_size

\* results of earlier chunks come before results of later chunks
InChunkOrder(res, symbols) ==
    \A p, q \in 1..Len(res) :
        p < q => ChunkOf(symbols, res[p].symbol) <= ChunkOf(symbols, res[q].symbol)

\* the part of C13 that does not depend on how many results a chunk yields
BatchedChunksSequential ==
    /\ call.method = "batched" =>
           /\ Cardinality(InFlight) <= config.batch_size
           /\ Cardinality(call.fts) <= config.batch_size
           /\ \A i \in FutureIds \ call.fts : futures[i].pc = "finished"
           /\ cpc = "batch_pause" => PoolDrained
           /\ InChunkOrder(all_results \o results, call.symbols)
    /\ (outcome.kind = "returned" /\ outcome.method = "batched") =>
           InChunkOrder(outcome.results, outcome.symbols)

\* C13: execute_batched runs the chunks of at most batch_size symbols one
\* after another: a chunk is submitted only when every task of the
\* earlier chunks has finished, at most batch_size tasks are in flight,
\* and the list returned holds exactly one result per symbol, N in all,
\* in chunk order
C13_BatchedChunksInOrder ==
    /\ BatchedChunksSequential
    /\ (outcome.kind = "returned" /\ outcome.method = "batched" /\ outcome.scope) =>
           OnePerSymbol(outcome.results, outcome.symbols)

\* the futures of the call whose turn in the collection loop is over
Handled == {i \in yielded : cpc = "collect" \/ i # cur}

\* C26: for every task result collected by execute_concurrent with a
\* progress callback, exactly one terminal callback is fired for the
\* symbol, after its "running" callback, with the status of the TaskResult
\* collected for it: "completed" if and only if success, otherwise
\* "failed"; no symbol receives both
C26_OneTerminalCallback ==
    call.cb # "none" =>
        \A i \in Handled :
            /\ futures[i].nRunning = 1
            /\ futures[i].nCompleted + futures[i].nFailed = 1
            /\ \A k \in ResultsFor(results, futures[i].symbol) :
                   results[k].success <=> futures[i].nCompleted = 1

\* the part of C29 about the pool: at most max_workers work items are
\* inside _execute_task_with_retry, and so inside task_func
PoolBoundsRetryLoops ==
    /\ Cardinality(Active) <= config.max_workers
    /\ Cardinality({i \in FutureIds : futures[i].pc = "in_call"}) <= config.max_workers

\* C29: at every moment at most max_workers tasks are inside their retry
\* loop: the number of task functions executing concurrently and the size
\* of the set get_running_tasks() returns never exceed max_workers,
\* however many tasks were submitted
C29_AtMostMaxWorkersRunning ==
    /\ PoolBoundsRetryLoops
    /\ Cardinality(running_tasks) <= config.max_workers

\* execute_concurrent has returned and its list holds a TaskResult for
\* every submitted symbol
ReturnedAResultForEach ==
    /\ cpc = "idle"
    /\ outcome.kind = "returned"
    /\ outcome.method = "concurrent"
    /\ \A k \in 1..Len(outcome.symbols) :
           \E j \in 1..Len(outcome.results) : outcome.results[j].symbol = outcome.symbols[k]

\* ConcurrentManager.is_running
is_running == running_tasks # {}

\* C38: whenever execute_concurrent has returned a result for every
\* submitted symbol the manager's running set is empty, whether the tasks
\* succeeded, failed after all retries or had a raising progress callback
C38_RunningSetEmptyAfterReturn ==
    ReturnedAResultForEach => running_tasks = {} /\ ~is_running

(* ==================== BatchAnalyzer.analyze_stocks ==================== *)
\* ConcurrentConfig with every field create_optimized_config sets;
\* api_rate_limit is in hundredths of a second
TierConfig(mw, rate, bs, timeout, mr) ==
    [max_workers |-> mw, api_rate_limit |-> rate, batch_size |-> bs,
     timeout_per_task |-> timeout, max_retries |-> mr]

create_optimized_config_strict(stock_count) ==
    IF stock_count < 5 THEN TierConfig(3, 10, 5, 20, 2)
    ELSE IF stock_count < 20 THEN TierConfig(6, 15, 10, 25, 3)
    ELSE TierConfig(8, 20, 15, 30, 3)

\* create_optimized_config(stock_count): three tiers with boundaries 5, 20
create_optimized_config(stock_count) ==
    IF stock_count <= 5 THEN TierConfig(3, 10, 5, 20, 2)
    ELSE IF stock_count <= 20 THEN TierConfig(6, 15, 10, 25, 3)
    ELSE TierConfig(8, 20, 15, 30, 3)

\* analyze_stocks up to the collection loop: the tracker is created and
\* initialized when show_progress, the config is chosen by the number of
\* symbols, the manager's scope is entered and execute_concurrent submits
\* every symbol with self._progress_callback
AnalyzeBegin(symbols, show_progress) ==
    /\ apc = "start"
    /\ apc' = "executing"
    /\ IF show_progress
       THEN /\ tracker' = TRUE
            /\ tasks' = initialize(symbols).tasks
            /\ stats' = initialize(symbols).stats
       ELSE UNCHANGED trackerVars
    /\ config' = create_optimized_config(Len(symbols))
    /\ executor' = "open"
    /\ futures' = [k \in 1..Len(symbols) |-> NewFuture(symbols[k], "batch")]
    /\ call' = [method |-> "concurrent", symbols |-> symbols, cb |-> "batch",
                fts |-> 1..Len(symbols), scope |-> TRUE]
    /\ cpc' = "collect"
    /\ UNCHANGED <<running_tasks, results, yielded, cur, all_results, rest, outcome,
                   may_be_slow, exited, batch_result>>
    /\ UNCHANGED envVars

\* the with block is left, by return or by exception: __exit__ starts
\* executor.shutdown(wait=True)
AnalyzeExit ==
    /\ apc = "executing"
    /\ cpc = "idle"
    /\ outcome.kind # "none"
    /\ apc' = "exiting"
    /\ UNCHANGED <<mgrVars, callVars, trackerVars, batch_result, envVars>>

SuccessesAll(res) == res
Successes(res) == SelectSeq(res, LAMBDA r : r.success)
Failures(res) == SelectSeq(res, LAMBDA r : ~r.success)

BatchSuccessRateUnguarded(successful_count, symbols) ==
    Rate(successful_count * 100, Len(symbols))

\* (len(successful_analyses) / len(symbols)) * 100 if symbols else 0
BatchSuccessRate(successful_count, symbols) ==
    IF symbols # <<>> THEN Rate(successful_count * 100, Len(symbols)) ELSE Rate(0, 1)

\* the partition of task_results into successful_analyses and
\* failed_analyses, and the success rate over the symbols asked for
BatchAnalysisResult(symbols, task_results) ==
    [total_stocks |-> Len(symbols),
     success_rate |-> BatchSuccessRate(Len(Successes(task_results)), symbols),
     successful |-> [k \in 1..Len(Successes(task_results)) |-> Successes(task_results)[k].result],
     failed |-> [k \in 1..Len(Failures(task_results)) |->
                    [symbol |-> Failures(task_results)[k].symbol,
                     error |-> Failures(task_results)[k].error,
                     attempts |-> Failures(task_results)[k].attempts]]]

\* shutdown(wait=True) has returned and the manager dropped its pool; an
\* exception of execute_concurrent leaves analyze_stocks, and so does a
\* division by zero; otherwise the results are partitioned and the
\* BatchAnalysisResult is returned
AnalyzeFinish ==
    /\ apc = "exiting"
    /\ PoolDrained
    /\ executor' = "none"
    /\ exited' = TRUE
    /\ IF outcome.kind = "raised" \/ ~Defined(BatchAnalysisResult(outcome.symbols, outcome.results).success_rate)
       THEN /\ apc' = "raised"
            /\ UNCHANGED batch_result
       ELSE /\ apc' = "done"
            /\ batch_result' = BatchAnalysisResult(outcome.symbols, outcome.results)
    /\ UNCHANGED <<config, futures, running_tasks>>
    /\ UNCHANGED <<cpc, call, results, yielded, cur, all_results, rest, outcome, may_be_slow>>
    /\ UNCHANGED <<trackerVars, envVars>>

BatchInit ==
    /\ EnvIdle
    /\ config = ConcurrentConfig(8, 3, 10)
    /\ executor = "none"
    /\ futures = <<>>
    /\ running_tasks = {}
    /\ cpc = "idle"
    /\ call = NoCall
    /\ results = <<>>
    /\ yielded = {}
    /\ cur = 0
    /\ all_results = <<>>
    /\ rest = <<>>
    /\ outcome = NoOutcome
    /\ may_be_slow \in BOOLEAN
    /\ exited = FALSE
    /\ apc = "start"
    /\ tracker = FALSE
    /\ tasks = << >>
    /\ stats = NoStats
    /\ batch_result = NoBatchResult

\* the analyzer's callback never raises, so no future ends with an
\* exception and the except branch of the collection loop is not entered
BatchCollector ==
    \/ \E i \in FutureIds : Collect(i)
    \/ \E raises \in BOOLEAN : NotifyTerminal(raises)
    \/ Timeout
    \/ ReturnResults

Analyzer ==
    \/ \E symbols \in SymbolLists, show_progress \in BOOLEAN : AnalyzeBegin(symbols, show_progress)
    \/ AnalyzeExit
    \/ AnalyzeFinish

BatchNext == Worker \/ BatchCollector \/ Analyzer

BatchSpec == BatchInit /\ [][BatchNext]_vars

(* ===================== properties under BatchSpec ====================== *)
\* the except branch of the collection loop is dead under BatchSpec
HandlerNeverEntered == cpc # "cb_handler" /\ \A i \in FutureIds : futures[i].state # "exception"

\* the work item of a symbol (symbols are unique within the batch)
FutureOf(symbol) == CHOOSE i \in FutureIds : futures[i].symbol = symbol

LegalTransition(old, new) ==
    \/ old = "pending" /\ new = "running"
    \/ old = "running" /\ new \in {"completed", "failed"}

StatusMatchesReports(symbol) ==
    LET f == futures[FutureOf(symbol)]
        st == tasks[symbol].status
    IN  /\ f.nRunning <= 1
        /\ f.nCompleted + f.nFailed <= 1
        /\ f.nCompleted + f.nFailed = 1 => f.nRunning = 1
        /\ st = "pending" <=> f.nRunning = 0
        /\ st = "running" <=> (f.nRunning = 1 /\ f.nCompleted + f.nFailed = 0)
        /\ st = "completed" <=> f.nCompleted = 1
        /\ st = "failed" <=> f.nFailed = 1

AllTerminal == \A s \in DOMAIN tasks : tasks[s].status \in {"completed", "failed"}

AlwaysRaised(h) == h # <<>> /\ \A k \in 1..Len(h) : h[k] = "raise"

\* the run is over and the task function was prompt, raised on every
\* invocation for some symbols and succeeded at once for the others
FixedFailureRun ==
    /\ apc \in {"done", "raised"}
    /\ ~may_be_slow
    /\ \A i \in FutureIds : futures[i].hist = <<"ok">> \/ AlwaysRaised(futures[i].hist)

\* the symbols whose task function always raised
FailingSymbols == {futures[i].symbol : i \in {j \in FutureIds : AlwaysRaised(futures[j].hist)}}

RunsWithSelectedTier ==
    apc # "start" => config = create_optimized_config(Len(IF cpc = "idle" THEN outcome.symbols ELSE call.symbols))

\* the symbols analyze_stocks was called with
RunSymbols == IF cpc = "idle" THEN outcome.symbols ELSE call.symbols

\* C11: analyze_stocks called with an empty symbol list returns normally
\* a BatchAnalysisResult with total 0, no successes, no failures and
\* success rate 0; no work item is created, so the task function is never
\* invoked, and no division raises
C11_EmptyBatch ==
    (apc # "start" /\ RunSymbols = <<>>) =>
        /\ futures = <<>>
        /\ outcome.kind # "raised"
        /\ apc # "raised"
        /\ apc = "done" =>
               /\ batch_result.total_stocks = 0
               /\ batch_result.successful = <<>>
               /\ batch_result.failed = <<>>
               /\ IsZero(batch_result.success_rate)

\* a tracked run over no symbols has returned
C11_Witness ==
    /\ apc = "done"
    /\ tracker
    /\ outcome.kind = "returned"
    /\ outcome.symbols = <<>>

\* C18: after a tracked batch run has returned, the AnalysisTask of every
\* successful symbol is completed and holds the result of the task
\* function, that of every failed symbol is failed and holds the error
\* text of its TaskResult, and get_completed_results lists one result per
\* completed task
C18_TrackerStoresPayload ==
    (tracker /\ apc = "done") =>
        /\ \A k \in 1..Len(outcome.results) :
               LET r == outcome.results[k]
               IN  IF r.success
                   THEN /\ tasks[r.symbol].status = "completed"
                        /\ tasks[r.symbol].result = r.result
                   ELSE /\ tasks[r.symbol].status = "failed"
                        /\ tasks[r.symbol].error_message = r.error
        /\ Len(get_completed_results(tasks)) = Cardinality(WithStatus(tasks, "completed"))

(* ============ ProgressTracker called from several threads ============== *)
\* symbols a caller may name: those of the batch and one that is in no batch
CallableSymbols == 1..(NumSymbols + 1)

TrackerFrame == UNCHANGED <<mgrVars, callVars, batchVars, limiterVars, fnVars, tracker>>

TrackerCallUnlocked(t, op, symbol, symbols) ==
    /\ tpc[t] = "idle"
    /\ nops < MaxOps
    /\ nops' = nops + 1
    /\ top' = [top EXCEPT ![t] = [op |-> op, symbol |-> symbol, symbols |-> symbols]]
    /\ tlock' = t
    /\ tpc' = [tpc EXCEPT ![t] = "s1"]
    /\ UNCHANGED <<snap, transitions, seen, tasks, stats>>
    /\ TrackerFrame

\* a thread calls a ProgressTracker method and enters `with self._lock`,
\* which it can do only while no thread holds the lock
TrackerCall(t, op, symbol, symbols) ==
    /\ tpc[t] = "idle"
    /\ nops < MaxOps
    /\ tlock = 0
    /\ nops' = nops + 1
    /\ top' = [top EXCEPT ![t] = [op |-> op, symbol |-> symbol, symbols |-> symbols]]
    /\ tlock' = t
    /\ tpc' = [tpc EXCEPT ![t] = "s1"]
    /\ UNCHANGED <<snap, transitions, seen, tasks, stats>>
    /\ TrackerFrame

Transitions == {"initialize", "start_task", "complete_task", "fail_task"}

\* `with self._lock` is left and the method returns
TrackerUnlock(t) ==
    /\ tpc[t] = "unlock"
    /\ tlock' = 0
    /\ tpc' = [tpc EXCEPT ![t] = "idle"]
    /\ top' = [top EXCEPT ![t] = NoOp]
    /\ transitions' = IF top[t].op \in Transitions THEN transitions + 1 ELSE transitions
    /\ UNCHANGED <<snap, nops, seen, tasks, stats>>
    /\ TrackerFrame

InitializeStepKeeping(t) ==
    /\ top[t].op = "initialize"
    /\ \/ /\ tpc[t] = "s1"
          /\ tpc' = [tpc EXCEPT ![t] = "s2"]
          /\ UNCHANGED <<tasks, stats>>
       \/ /\ tpc[t] = "s2"
          /\ stats' = [NoStats EXCEPT !.total_tasks = Len(top[t].symbols)]
          /\ tpc' = [tpc EXCEPT ![t] = "s3"]
          /\ UNCHANGED tasks
       \/ /\ tpc[t] = "s3"
          /\ stats' = [stats EXCEPT !.pending = Len(top[t].symbols)]
          /\ tpc' = [tpc EXCEPT ![t] = "s4"]
          /\ UNCHANGED tasks
       \/ /\ tpc[t] = "s4"
          /\ stats' = [stats EXCEPT !.start_time = nops]
          /\ tpc' = [tpc EXCEPT ![t] = "s5"]
          /\ UNCHANGED tasks
       \/ /\ tpc[t] = "s5"
          /\ tasks' = [s \in DOMAIN tasks \cup SeqToSet(top[t].symbols) |->
                          IF s \in SeqToSet(top[t].symbols) THEN AnalysisTask ELSE tasks[s]]
          /\ tpc' = [tpc EXCEPT ![t] = "unlock"]
          /\ UNCHANGED stats
    /\ UNCHANGED <<tlock, top, snap, nops, transitions, seen>>
    /\ TrackerFrame

\* the statements of initialize, one per step: tasks.clear(); stats =
\* ProgressStats(total_tasks=n); stats.pending = n; stats.start_time =
\* datetime.now(); one AnalysisTask per symbol
InitializeStep(t) ==
    /\ top[t].op = "initialize"
    /\ \/ /\ tpc[t] = "s1"
          /\ tasks' = << >>
          /\ tpc' = [tpc EXCEPT ![t] = "s2"]
          /\ UNCHANGED stats
       \/ /\ tpc[t] = "s2"
          /\ stats' = [NoStats EXCEPT !.total_tasks = Len(top[t].symbols)]
          /\ tpc' = [tpc EXCEPT ![t] = "s3"]
          /\ UNCHANGED tasks
       \/ /\ tpc[t] = "s3"
          /\ stats' = [stats EXCEPT !.pending = Len(top[t].symbols)]
          /\ tpc' = [tpc EXCEPT ![t] = "s4"]
          /\ UNCHANGED tasks
       \/ /\ tpc[t] = "s4"
          /\ stats' = [stats EXCEPT !.start_time = nops]
          /\ tpc' = [tpc EXCEPT ![t] = "s5"]
          /\ UNCHANGED tasks
       \/ /\ tpc[t] = "s5"
          /\ tasks' = [s \in SeqToSet(top[t].symbols) |-> AnalysisTask]
          /\ tpc' = [tpc EXCEPT ![t] = "unlock"]
          /\ UNCHANGED stats
    /\ UNCHANGED <<tlock, top, snap, nops, transitions, seen>>
    /\ TrackerFrame

StartTaskStepUnguarded(t) ==
    /\ top[t].op = "start_task"
    /\ \/ /\ tpc[t] = "s1"
          /\ IF top[t].symbol \in DOMAIN tasks
             THEN tasks' = [tasks EXCEPT ![top[t].symbol].status = "running"]
             ELSE UNCHANGED tasks
          /\ tpc' = [tpc EXCEPT ![t] = "s2"]
          /\ UNCHANGED stats
       \/ /\ tpc[t] = "s2"
          /\ stats' = DecPending(stats)
          /\ tpc' = [tpc EXCEPT ![t] = "s3"]
          /\ UNCHANGED tasks
       \/ /\ tpc[t] = "s3"
          /\ stats' = IncRunning(stats)
          /\ tpc' = [tpc EXCEPT ![t] = "unlock"]
          /\ UNCHANGED tasks
    /\ UNCHANGED <<tlock, top, snap, nops, transitions, seen>>
    /\ TrackerFrame

\* the statements of start_task: the membership test and task.status =
\* "running"; stats.pending -= 1; stats.running += 1
StartTaskStep(t) ==
    /\ top[t].op = "start_task"
    /\ \/ /\ tpc[t] = "s1"
          /\ IF top[t].symbol \in DOMAIN tasks
             THEN /\ tasks' = [tasks EXCEPT ![top[t].symbol].status = "running"]
                  /\ tpc' = [tpc EXCEPT ![t] = "s2"]
             ELSE /\ tpc' = [tpc EXCEPT ![t] = "unlock"]
                  /\ UNCHANGED tasks
          /\ UNCHANGED stats
       \/ /\ tpc[t] = "s2"
          /\ stats' = DecPending(stats)
          /\ tpc' = [tpc EXCEPT ![t] = "s3"]
          /\ UNCHANGED tasks
       \/ /\ tpc[t] = "s3"
          /\ stats' = IncRunning(stats)
          /\ tpc' = [tpc EXCEPT ![t] = "unlock"]
          /\ UNCHANGED tasks
    /\ UNCHANGED <<tlock, top, snap, nops, transitions, seen>>
    /\ TrackerFrame

\* the statements of complete_task: the membership test, task.status =
\* "completed" and task.result; stats.running -= 1; stats.completed += 1
CompleteTaskStep(t) ==
    /\ top[t].op = "complete_task"
    /\ \/ /\ tpc[t] = "s1"
          /\ IF top[t].symbol \in DOMAIN tasks
             THEN /\ tasks' = [tasks EXCEPT ![top[t].symbol].status = "completed",
                                            ![top[t].symbol].result = "data"]
                  /\ tpc' = [tpc EXCEPT ![t] = "s2"]
             ELSE /\ tpc' = [tpc EXCEPT ![t] = "unlock"]
                  /\ UNCHANGED tasks
          /\ UNCHANGED stats
       \/ /\ tpc[t] = "s2"
          /\ stats' = DecRunning(stats)
          /\ tpc' = [tpc EXCEPT ![t] = "s3"]
          /\ UNCHANGED tasks
       \/ /\ tpc[t] = "s3"
          /\ stats' = IncCompleted(stats)
          /\ tpc' = [tpc EXCEPT ![t] = "unlock"]
          /\ UNCHANGED tasks
    /\ UNCHANGED <<tlock, top, snap, nops, transitions, seen>>
    /\ TrackerFrame

\* the statements of fail_task: the membership test, task.status =
\* "failed" and task.error_message; stats.running -= 1; stats.failed += 1
FailTaskStep(t) ==
    /\ top[t].op = "fail_task"
    /\ \/ /\ tpc[t] = "s1"
          /\ IF top[t].symbol \in DOMAIN tasks
             THEN /\ tasks' = [tasks EXCEPT ![top[t].symbol].status = "failed",
                                            ![top[t].symbol].error_message = "error"]
                  /\ tpc' = [tpc EXCEPT ![t] = "s2"]
             ELSE /\ tpc' = [tpc EXCEPT ![t] = "unlock"]
                  /\ UNCHANGED tasks
          /\ UNCHANGED stats
       \/ /\ tpc[t] = "s2"
          /\ stats' = DecRunning(stats)
          /\ tpc' = [tpc EXCEPT ![t] = "s3"]
          /\ UNCHANGED tasks
       \/ /\ tpc[t] = "s3"
          /\ stats' = IncFailed(stats)
          /\ tpc' = [tpc EXCEPT ![t] = "unlock"]
          /\ UNCHANGED tasks
    /\ UNCHANGED <<tlock, top, snap, nops, transitions, seen>>
    /\ TrackerFrame

ProgressStatsStartingNow(st, clock) == [st EXCEPT !.start_time = clock]

\* ProgressStats(total_tasks=..., ..., start_time=self.stats.start_time):
\* a new object holding the six fields of self.stats
ProgressStatsCopy(st, clock) ==
    [total_tasks |-> st.total_tasks, completed |-> st.completed, failed |-> st.failed,
     running |-> st.running, pending |-> st.pending, start_time |-> st.start_time]

\* get_current_stats: a copy of the counters, made under the lock
get_current_stats(t) ==
    /\ top[t].op = "get_current_stats"
    /\ tpc[t] = "s1"
    /\ snap' = [snap EXCEPT ![t] = [valid |-> TRUE, stats |-> ProgressStatsCopy(stats, nops),
                                    version |-> transitions]]
    /\ tpc' = [tpc EXCEPT ![t] = "unlock"]
    /\ UNCHANGED <<tlock, top, nops, transitions, seen, tasks, stats>>
    /\ TrackerFrame

\* get_failed_tasks, get_running_tasks and is_completed: the list or the
\* flag computed under the lock
ReadStep(t) ==
    /\ top[t].op \in {"get_failed_tasks", "get_running_tasks", "is_completed"}
    /\ tpc[t] = "s1"
    /\ seen' =
           [op |-> top[t].op,
            symbols |-> CASE top[t].op = "get_failed_tasks" -> WithStatus(tasks, "failed")
                          [] top[t].op = "get_running_tasks" -> WithStatus(tasks, "running")
                          [] OTHER -> {},
            flag |-> top[t].op = "is_completed" /\ stats.pending = 0 /\ stats.running = 0]
    /\ tpc' = [tpc EXCEPT ![t] = "unlock"]
    /\ UNCHANGED <<tlock, top, snap, nops, transitions, tasks, stats>>
    /\ TrackerFrame

TrackerInit ==
    /\ EnvIdle
    /\ config = ConcurrentConfig(8, 3, 10)
    /\ executor = "none"
    /\ futures = <<>>
    /\ running_tasks = {}
    /\ cpc = "idle"
    /\ call = NoCall
    /\ results = <<>>
    /\ yielded = {}
    /\ cur = 0
    /\ all_results = <<>>
    /\ rest = <<>>
    /\ outcome = NoOutcome
    /\ may_be_slow = FALSE
    /\ exited = FALSE
    /\ apc = "none"
    /\ tracker = TRUE
    /\ tasks = << >>
    /\ stats = NoStats
    /\ batch_result = NoBatchResult

TrackerNext ==
    \/ \E t \in Threads, symbols \in SymbolLists : TrackerCall(t, "initialize", 0, symbols)
    \/ \E t \in Threads, symbol \in CallableSymbols : TrackerCall(t, "start_task", symbol, <<>>)
    \/ \E t \in Threads, symbol \in CallableSymbols : TrackerCall(t, "complete_task", symbol, <<>>)
    \/ \E t \in Threads, symbol \in CallableSymbols : TrackerCall(t, "fail_task", symbol, <<>>)
    \/ \E t \in Threads : TrackerCall(t, "get_current_stats", 0, <<>>)
    \/ \E t \in Threads, op \in {"get_failed_tasks", "get_running_tasks", "is_completed"} :
           TrackerCall(t, op, 0, <<>>)
    \/ \E t \in Threads : ReadStep(t)
    \/ \E t \in Threads : InitializeStep(t)
    \/ \E t \in Threads : StartTaskStep(t)
    \/ \E t \in Threads : CompleteTaskStep(t)
    \/ \E t \in Threads : FailTaskStep(t)
    \/ \E t \in Threads : get_current_stats(t)
    \/ \E t \in Threads : TrackerUnlock(t)

TrackerSpec == TrackerInit /\ [][TrackerNext]_vars

(* ==================== properties under TrackerSpec ===================== *)
CountersAddUp(st) == st.pending + st.running + st.completed + st.failed = st.total_tasks

\* C3: every ProgressStats snapshot returned by get_current_stats, after
\* any interleaving of initialize, start_task, complete_task and fail_task
\* calls, has pending + running + completed + failed = total_tasks
C3_SnapshotCountersAddUp ==
    \A t \in Threads : snap[t].valid => CountersAddUp(snap[t].stats)

\* a snapshot taken after a task was started and completed while another
\* was still pending
C3_Witness ==
    \E t \in Threads :
        /\ snap[t].valid
        /\ snap[t].stats.total_tasks = 2
        /\ snap[t].stats.completed = 1
        /\ snap[t].stats.pending = 1

\* C17 as stated: in every snapshot success_rate is the quotient
\* completed / (completed + failed) when something has finished and 0
\* otherwise, and completion_rate is the quotient (completed + failed) /
\* total_tasks wherever that quotient exists
C17_RatesAsQuotients ==
    \A t \in Threads :
        snap[t].valid =>
            LET st == snap[t].stats
            IN  /\ IF st.completed + st.failed > 0
                   THEN RateEq(success_rate(st), Rate(st.completed, st.completed + st.failed))
                   ELSE IsZero(success_rate(st))
                /\ st.total_tasks > 0 =>
                       RateEq(completion_rate(st), Rate(st.completed + st.failed, st.total_tasks))

\* C17 amended: both rates are percentages, and each is 0 when its
\* denominator is 0: success_rate x (completed + failed) = 100 x
\* completed, completion_rate x total_tasks = 100 x (completed + failed)
C17_RatesArePercentages ==
    \A t \in Threads :
        snap[t].valid =>
            LET st == snap[t].stats
                sr == success_rate(st)
                cr == completion_rate(st)
            IN  /\ Defined(sr)
                /\ Defined(cr)
                /\ sr.num * (st.completed + st.failed) = 100 * st.completed * sr.den
                /\ st.completed + st.failed = 0 => sr.num = 0
                /\ cr.num * st.total_tasks = 100 * (st.completed + st.failed) * cr.den
                /\ st.total_tasks = 0 => cr.num = 0

\* a snapshot of two tasks, one completed and one failed: success rate 50,
\* completion rate 100
C17_Witness ==
    \E t \in Threads :
        /\ snap[t].valid
        /\ snap[t].stats.total_tasks = 2
        /\ snap[t].stats.completed = 1
        /\ snap[t].stats.failed = 1
        /\ RateEq(success_rate(snap[t].stats), Rate(50, 1))
        /\ RateEq(completion_rate(snap[t].stats), Rate(100, 1))

\* C14: two get_current_stats calls with no initialize, start_task,
\* complete_task or fail_task call between them return snapshots equal in
\* total_tasks, completed, failed, running, pending and start_time, and
\* a get_current_stats call changes neither the tasks nor the counters
C14_SnapshotsRepeatable ==
    /\ [](\A t, u \in Threads :
             (snap[t].valid /\ snap[u].valid /\ snap[t].version = snap[u].version)
                 => snap[t].stats = snap[u].stats)
    /\ [][\A t \in Threads :
             /\ (snap[t].valid /\ snap'[t].version = snap[t].version)
                    => snap'[t].stats = snap[t].stats
             /\ snap'[t] # snap[t] => UNCHANGED <<tasks, stats>>]_vars

\* two threads hold snapshots of an initialized tracker taken with one
\* started task and no transition between the two calls
C14_Witness ==
    \E t, u \in Threads :
        /\ t # u
        /\ snap[t].valid
        /\ snap[u].valid
        /\ snap[t].version = snap[u].version
        /\ snap[t].stats.running = 1
        /\ snap[t].stats.start_time >= 0

\* C15: every statement of initialize, start_task, complete_task,
\* fail_task, get_current_stats, get_failed_tasks, get_running_tasks and
\* is_completed that reads or writes the counters or the task statuses
\* runs while its thread holds the tracker's lock, so no snapshot shows a
\* half-applied transition: in each the four counters add up to the total
C15_AccessUnderLock ==
    /\ \A t \in Threads : tpc[t] # "idle" => tlock = t
    /\ \A t \in Threads :
           snap[t].valid =>
               snap[t].stats.pending + snap[t].stats.running
                   + snap[t].stats.completed + snap[t].stats.failed = snap[t].stats.total_tasks

\* a thread is inside start_task with pending decremented and running not
\* yet incremented, while another thread holds a snapshot taken earlier
C15_Witness ==
    \E t, u \in Threads :
        /\ t # u
        /\ top[t].op = "start_task"
        /\ tpc[t] = "s3"
        /\ snap[u].valid
        /\ snap[u].stats.total_tasks > 0

\* a thread has run initialize to its end and is about to release the lock
Initialized(t) == top[t].op = "initialize" /\ tpc[t] = "unlock"

\* C27: initialize(symbols), called in any prior tracker state, discards
\* all previous tasks and counters and leaves exactly one AnalysisTask per
\* symbol, in status pending, with total_tasks = pending = len(symbols)
\* and completed = failed = running = 0
C27_InitializeResets ==
    \A t \in Threads :
        Initialized(t) =>
            /\ DOMAIN tasks = SeqToSet(top[t].symbols)
            /\ \A s \in DOMAIN tasks :
                   /\ tasks[s].status = "pending"
                   /\ tasks[s].result = "none"
                   /\ tasks[s].error_message = "none"
            /\ stats.total_tasks = Len(top[t].symbols)
            /\ stats.pending = Len(top[t].symbols)
            /\ stats.completed = 0
            /\ stats.failed = 0
            /\ stats.running = 0

\* initialize ran over one symbol in a tracker that another thread had
\* seen mid-run, with two tasks of which one was running
C27_Witness ==
    \E t, u \in Threads :
        /\ Initialized(t)
        /\ Len(top[t].symbols) = 1
        /\ snap[u].valid
        /\ snap[u].stats.total_tasks = 2
        /\ snap[u].stats.running = 1
        /\ snap[u].version = transitions


\* a thread is inside start_task, complete_task or fail_task, holding the
\* lock, with a symbol that initialize did not register
InUnknownSymbolCall(t) ==
    /\ tlock = t
    /\ top[t].op \in {"start_task", "complete_task", "fail_task"}
    /\ top[t].symbol \notin DOMAIN tasks

\* C31: start_task, complete_task and fail_task called with a symbol that
\* is not in the initialized task set leave the tracker unchanged: no
\* counter moves, no task is created, no task's status or payload changes
C31_UnknownSymbolIsNoOp ==
    [][(\E t \in Threads : InUnknownSymbolCall(t)) => UNCHANGED <<tasks, stats>>]_vars

\* a call with an unknown symbol on an initialized tracker has run to the
\* release of the lock
C31_Witness ==
    \E t \in Threads :
        /\ InUnknownSymbolCall(t)
        /\ tpc[t] = "unlock"
        /\ tasks # << >>

(* ======================== APIRateLimiter.acquire ======================= *)
LimiterFrame == UNCHANGED <<mgrVars, callVars, trackerVars, batchVars, threadVars, fnVars, min_interval>>

\* threads between `with self._lock` and the end of acquire
InAcquire == {t \in Threads : lpc[t] \in {"locked", "sleeping", "stamp"}}

\* a thread calls acquire() and reaches `with self._lock`
AcquireCall(t) ==
    /\ lpc[t] = "idle"
    /\ Len(grants) + Cardinality({u \in Threads : lpc[u] # "idle"}) < MaxGrants
    /\ lpc' = [lpc EXCEPT ![t] = "wait"]
    /\ UNCHANGED <<now, last_call_time, rlock, wake, grants>>
    /\ LimiterFrame

\* `with self._lock` is entered
AcquireLock(t) ==
    /\ lpc[t] = "wait"
    /\ rlock = 0
    /\ rlock' = t
    /\ lpc' = [lpc EXCEPT ![t] = "locked"]
    /\ UNCHANGED <<now, last_call_time, wake, grants>>
    /\ LimiterFrame

SleepTimeNone(interval, time_since_last_call) == 0

\* sleep_time = self.min_interval - time_since_last_call
SleepTime(interval, time_since_last_call) == interval - time_since_last_call

\* current_time = time.time(); when less than min_interval has passed
\* since last_call_time, time.sleep(sleep_time) starts
ReadClock(t) ==
    /\ lpc[t] = "locked"
    /\ LET time_since_last_call == now - last_call_time
       IN  IF time_since_last_call < min_interval
           THEN /\ wake' = [wake EXCEPT ![t] = now + SleepTime(min_interval, time_since_last_call)]
                /\ lpc' = [lpc EXCEPT ![t] = "sleeping"]
           ELSE /\ lpc' = [lpc EXCEPT ![t] = "stamp"]
                /\ UNCHANGED wake
    /\ UNCHANGED <<now, last_call_time, rlock, grants>>
    /\ LimiterFrame

\* time.sleep returns, not before the requested time has passed
WakeUp(t) ==
    /\ lpc[t] = "sleeping"
    /\ now >= wake[t]
    /\ lpc' = [lpc EXCEPT ![t] = "stamp"]
    /\ UNCHANGED <<now, last_call_time, rlock, wake, grants>>
    /\ LimiterFrame

StampForgotten(t) ==
    /\ lpc[t] = "stamp"
    /\ grants' = Append(grants, now)
    /\ rlock' = 0
    /\ lpc' = [lpc EXCEPT ![t] = "idle"]
    /\ UNCHANGED <<now, wake, last_call_time>>
    /\ LimiterFrame

\* self.last_call_time = time.time(); the lock is released and acquire
\* returns
Stamp(t) ==
    /\ lpc[t] = "stamp"
    /\ last_call_time' = now
    /\ grants' = Append(grants, now)
    /\ rlock' = 0
    /\ lpc' = [lpc EXCEPT ![t] = "idle"]
    /\ UNCHANGED <<now, wake>>
    /\ LimiterFrame

\* the clock advances
Tick ==
    /\ now < MaxInterval + 1 + MaxTicks
    /\ now' = now + 1
    /\ UNCHANGED <<last_call_time, rlock, lpc, wake, grants>>
    /\ LimiterFrame

\* APIRateLimiter.__init__: min_interval = 1 / calls_per_second for a
\* positive rate, else 0; last_call_time = 0, long before now
LimiterInit ==
    /\ tlock = 0
    /\ tpc = [t \in Threads |-> "idle"]
    /\ top = [t \in Threads |-> NoOp]
    /\ snap = [t \in Threads |-> NoSnapshot]
    /\ nops = 0
    /\ transitions = 0
    /\ seen = NoValue
    /\ now = MaxInterval + 1
    /\ min_interval \in 0..MaxInterval
    /\ last_call_time = 0
    /\ rlock = 0
    /\ lpc = [t \in Threads |-> "idle"]
    /\ wake = [t \in Threads |-> 0]
    /\ grants = <<>>
    /\ FnIdle
    /\ config = ConcurrentConfig(8, 3, 10)
    /\ executor = "none"
    /\ futures = <<>>
    /\ running_tasks = {}
    /\ cpc = "idle"
    /\ call = NoCall
    /\ results = <<>>
    /\ yielded = {}
    /\ cur = 0
    /\ all_results = <<>>
    /\ rest = <<>>
    /\ outcome = NoOutcome
    /\ may_be_slow = FALSE
    /\ exited = FALSE
    /\ apc = "none"
    /\ tracker = FALSE
    /\ tasks = << >>
    /\ stats = NoStats
    /\ batch_result = NoBatchResult

LimiterNext ==
    \/ \E t \in Threads : AcquireCall(t)
    \/ \E t \in Threads : AcquireLock(t)
    \/ \E t \in Threads : ReadClock(t)
    \/ \E t \in Threads : WakeUp(t)
    \/ \E t \in Threads : Stamp(t)
    \/ Tick

LimiterSpec == LimiterInit /\ [][LimiterNext]_vars

(* ==================== properties under LimiterSpec ===================== *)
\* C4: two consecutive permits of one limiter are at least min_interval
\* apart, and at most one caller is inside the permit-granting section
C4_PermitsSpaced ==
    /\ \A k \in 1..(Len(grants) - 1) : grants[k + 1] - grants[k] >= min_interval
    /\ Cardinality(InAcquire) <= 1

\* a second permit was granted exactly min_interval > 0 after the first,
\* while another caller waits for the lock
C4_Witness ==
    /\ min_interval > 0
    /\ Len(grants) >= 2
    /\ grants[2] - grants[1] = min_interval
    /\ \E t \in Threads : lpc[t] = "wait"

\* C16: when the workers of a call obtain N >= 1 permits from the
\* limiter with interval r, the last permit comes at least (N - 1) x r
\* after the first, whatever the number of workers and the interleaving,
\* so a call that runs N tasks lasts at least that long
C16_PermitsSpanCall ==
    \A n \in 1..Len(grants) : grants[n] - grants[1] >= (n - 1) * min_interval

\* three permits were granted in exactly twice an interval of two ticks
C16_Witness ==
    /\ min_interval = 2
    /\ Len(grants) = 3
    /\ grants[3] - grants[1] = 2 * min_interval

(* ============ analyze_stocks sizing the manager (ConfigSpec) ============ *)
\* the manager, the tracker and the analyzer at rest
RestIdle ==
    /\ executor = "none"
    /\ futures = <<>>
    /\ running_tasks = {}
    /\ cpc = "idle"
    /\ call = NoCall
    /\ results = <<>>
    /\ yielded = {}
    /\ cur = 0
    /\ all_results = <<>>
    /\ rest = <<>>
    /\ outcome = NoOutcome
    /\ may_be_slow = FALSE
    /\ exited = FALSE
    /\ tracker = FALSE
    /\ tasks = << >>
    /\ stats = NoStats
    /\ batch_result = NoBatchResult

StockCounts == 0..MaxStockCount

\* analyze_stocks, lines 82 and 88, for a list of symbol_count symbols:
\* the config is created from len(symbols) and handed to the manager
AnalyzeSize ==
    /\ apc = "start"
    /\ apc' = "sized"
    /\ config' = create_optimized_config(symbol_count)
    /\ UNCHANGED <<executor, futures, running_tasks>>
    /\ UNCHANGED <<callVars, trackerVars, batch_result, envVars>>

ConfigInit ==
    /\ RestIdle
    /\ ThreadsIdle
    /\ TwinIdle
    /\ ParserIdle
    /\ RetryIdle
    /\ CtorIdle
    /\ AuxIdle
    /\ config = ConcurrentConfig(8, 3, 10)
    /\ apc = "start"
    /\ symbol_count \in StockCounts

ConfigNext == AnalyzeSize

ConfigSpec == ConfigInit /\ [][ConfigNext]_vars

(* ===================== properties under ConfigSpec ===================== *)
\* C12: the manager of analyze_stocks is configured by the number n of
\* symbols in exactly one of three tiers: n <= 5 gives 3 workers, rate
\* limit 0.10 s, batch size 5, 20 s per task, 2 retries; 6 <= n <= 20
\* gives 6, 0.15 s, 10, 25 s, 3; n > 20 gives 8, 0.20 s, 15, 30 s, 3
C12_ThreeTiers ==
    apc = "sized" =>
        /\ symbol_count <= 5 => config = TierConfig(3, 10, 5, 20, 2)
        /\ (6 <= symbol_count /\ symbol_count <= 20) => config = TierConfig(6, 15, 10, 25, 3)
        /\ symbol_count > 20 => config = TierConfig(8, 20, 15, 30, 3)
        /\ symbol_count = 5 => config.max_workers = 3
        /\ symbol_count = 12 => config.max_workers = 6
        /\ symbol_count = 30 => config.max_workers = 8

\* a run over 20 symbols was sized: the upper boundary of the middle tier
C12_Witness ==
    /\ apc = "sized"
    /\ symbol_count = 20
    /\ config.max_workers = 6

(* ========== two runs that differ in the error text (TwinSpec) ========== *)
\* the text of an exception, as the words _format_friendly_error looks for
ErrorTexts == {<<"timeout">>, <<"no data found">>, <<"bad value">>}

\* one invocation of the underlying analysis of a symbol
Returned == [ok |-> TRUE, text |-> <<>>]
Raising(text) == [ok |-> FALSE, text |-> text]

\* 'word' in error.lower()
Contains(error, word) == \E k \in 1..Len(error) : error[k] = word

\* _analyze_single_stock: a result is returned as it is, an exception is
\* raised again with the text put behind a prefix naming the symbol
_analyze_single_stock(did) ==
    IF did.ok THEN did ELSE Raising(<<"analysis failed:">> \o did.text)

\* last_error or "Unknown error"
OrUnknown(last_error) == IF last_error = <<>> THEN <<"unknown error">> ELSE last_error

\* the retry loop of _execute_task_with_retry from the given attempt on:
\* script[attempt] is what task_func does at that attempt; the frame keeps
\* the TaskResult, the invocations made and the back-off slept
RECURSIVE RetryLoop(_, _, _, _, _)
RetryLoop(symbol, script, max_retries, attempt, slept) ==
    LET did == _analyze_single_stock(script[attempt])
    IN  IF did.ok
        THEN [result |-> SuccessResult(symbol, attempt),
              invocations |-> attempt, slept |-> slept]
        ELSE IF attempt < max_retries
        THEN RetryLoop(symbol, script, max_retries, attempt + 1, slept + attempt)
        ELSE [result |-> FailedResult(symbol, OrUnknown(did.text), max_retries),
              invocations |-> attempt, slept |-> slept]

_execute_task_with_retry_classifying(symbol, script, max_retries) ==
    LET final == Contains(script[1].text, "no data found")
        run == RetryLoop(symbol, script, IF final THEN 1 ELSE max_retries, 1, 0)
    IN  [result |-> run.result, invocations |-> run.invocations, slept |-> run.slept,
         callbacks |-> <<"running", TerminalStatus(run.result)>>]

\* _execute_task_with_retry for one symbol: "running" is reported, the
\* loop runs from attempt 1, the terminal status is reported
_execute_task_with_retry(symbol, script, max_retries) ==
    LET run == RetryLoop(symbol, script, max_retries, 1, 0)
    IN  [result |-> run.result, invocations |-> run.invocations, slept |-> run.slept,
         callbacks |-> <<"running", TerminalStatus(run.result)>>]

\* _format_friendly_error(symbol, error): the report line of a failure
_format_friendly_error(symbol, error) ==
    IF Contains(error, "delisted") \/ Contains(error, "no data found")
    THEN [line |-> "error_stock_delisted", symbol |-> symbol, error |-> <<>>]
    ELSE IF Contains(error, "timeout") \/ Contains(error, "connection")
    THEN [line |-> "error_network_issue", symbol |-> symbol, error |-> <<>>]
    ELSE [line |-> "plain", symbol |-> symbol, error |-> error]

TwinSymbols == [k \in 1..NumSymbols |-> k]

\* analyze_stocks over TwinSymbols, the tasks behaving as the script says:
\* the tasks' frames, the BatchAnalysisResult and the failure report
AnalyzeRun(script, max_retries) ==
    LET frames == [k \in 1..NumSymbols |->
                      _execute_task_with_retry(TwinSymbols[k], script[k], max_retries)]
        task_results == [k \in 1..NumSymbols |-> frames[k].result]
        batch == BatchAnalysisResult(TwinSymbols, task_results)
    IN  [frames |-> frames,
         batch |-> batch,
         report |-> [k \in 1..Len(batch.failed) |->
                        _format_friendly_error(batch.failed[k].symbol, batch.failed[k].error)]]

\* what the tasks of one run do: per symbol, one outcome per attempt
ScriptsOf(max_retries, texts) ==
    [Symbols -> [1..max_retries -> {Returned} \cup {Raising(text) : text \in texts}]]

\* the run that differs from the scripted one only in the error text: it
\* raises the given text wherever the scripted one raises
WithText(script, text) ==
    [k \in DOMAIN script |->
        [n \in DOMAIN script[k] |->
            IF script[k][n].ok THEN Returned ELSE Raising(text)]]

\* both runs are executed under the same configuration
TwinRun ==
    /\ scripts # <<>>
    /\ runs = <<>>
    /\ runs' = [r \in 1..2 |-> AnalyzeRun(scripts[r], config.max_retries)]
    /\ UNCHANGED <<scripts, sizingVars, parserVars, retryVars, ctorVars, auxVars>>
    /\ UNCHANGED <<mgrVars, callVars, trackerVars, batchVars, threadVars, limiterVars>>

\* the first run raises "timeout" wherever it raises and the second raises
\* any text at each of those attempts: every run agreeing with the first,
\* any two runs agree
TwinInit ==
    /\ RestIdle
    /\ ThreadsIdle
    /\ SizingIdle
    /\ ParserIdle
    /\ RetryIdle
    /\ CtorIdle
    /\ AuxIdle
    /\ apc = "none"
    /\ config \in {ConcurrentConfig(MaxWorkers, mr, BatchSize) : mr \in 1..MaxRetries}
    /\ \E b \in ScriptsOf(config.max_retries, ErrorTexts) :
          scripts = <<WithText(b, <<"timeout">>), b>>
    /\ runs = <<>>

TwinNext == TwinRun

TwinSpec == TwinInit /\ [][TwinNext]_vars

(* ====================== properties under TwinSpec ====================== *)
\* what of a run the error text must not reach: per symbol the attempts
\* reported and made, the back-off slept, the success flag and the
\* progress-callback sequence; and the partition of the batch
Execution(run) ==
    [frames |-> [k \in 1..NumSymbols |->
                    [attempts |-> run.frames[k].result.attempts,
                     invocations |-> run.frames[k].invocations,
                     slept |-> run.frames[k].slept,
                     success |-> run.frames[k].result.success,
                     callbacks |-> run.frames[k].callbacks]],
     successful_count |-> Len(run.batch.successful),
     failed_symbols |-> [k \in 1..Len(run.batch.failed) |-> run.batch.failed[k].symbol],
     success_rate |-> run.batch.success_rate]

\* C19: two batch runs that differ only in the error text raised by the
\* task function make the same number of attempts per task and produce the
\* same success flags, the same progress-callback sequence per symbol and
\* the same success/failure partition
C19_ErrorTextNeverSteers ==
    runs # <<>> => Execution(runs[1]) = Execution(runs[2])

\* two runs failed the same symbol, one on a timeout and one on missing
\* data, after a retry, and reported it in different categories
C19_Witness ==
    /\ runs # <<>>
    /\ ~runs[1].frames[1].result.success
    /\ runs[1].frames[1].invocations = 2
    /\ Contains(runs[1].frames[1].result.error, "timeout")
    /\ Contains(runs[2].frames[1].result.error, "no data found")
    /\ runs[1].report[1].line = "error_network_issue"
    /\ runs[2].report[1].line = "error_stock_delisted"

(* ================== InputParser (ParserSpec) ================== *)
\* a str is the sequence of its characters
Str1(a) == <<a>>
Str2(a, b) == <<a, b>>

Whitespace == {" ", "\n"}

\* str.upper(), character by character
UpperChar(c) == IF c = "a" THEN "A" ELSE c
upper(str) == [k \in 1..Len(str) |-> UpperChar(str[k])]

\* str.strip(): leading and trailing whitespace is removed
RECURSIVE lstrip(_)
lstrip(str) ==
    IF str # <<>> /\ Head(str) \in Whitespace THEN lstrip(Tail(str)) ELSE str

RECURSIVE rstrip(_)
rstrip(str) ==
    IF str # <<>> /\ str[Len(str)] \in Whitespace
    THEN rstrip(SubSeq(str, 1, Len(str) - 1))
    ELSE str

strip(str) == rstrip(lstrip(str))

\* [A-Z] at every position from a to b
UpperRun(str, a, b) == \A k \in a..b : k <= Len(str) /\ str[k] = "A"

\* $ after position k: the end of the string, or just before a final newline
AtDollar(str, k) ==
    \/ k = Len(str)
    \/ k = Len(str) - 1 /\ str[Len(str)] = "\n"

\* re.match(r'^[A-Z]{1,5}(\.[A-Z]{1,2})?$', symbol)
MatchesPattern(symbol) ==
    \E n \in 1..5 :
        /\ UpperRun(symbol, 1, n)
        /\ \/ AtDollar(symbol, n)
           \/ \E m \in 1..2 :
                /\ n + 1 <= Len(symbol)
                /\ symbol[n + 1] = "."
                /\ UpperRun(symbol, n + 2, n + 1 + m)
                /\ AtDollar(symbol, n + 1 + m)

\* _is_valid_symbol_format(symbol)
_is_valid_symbol_format(symbol) ==
    IF symbol = <<>> THEN FALSE
    ELSE IF Len(symbol) < 1 \/ Len(symbol) > 10 THEN FALSE
    ELSE MatchesPattern(symbol)

\* the loop of _normalize_symbols over the raw symbols still to visit
RECURSIVE NormalizeLoop(_, _, _)
NormalizeLoop(todo, normalized, seen_symbols) ==
    IF todo = <<>> THEN normalized
    ELSE LET symbol == Head(todo)
             clean_symbol == upper(strip(symbol))
         IN  IF symbol = <<>>
             THEN NormalizeLoop(Tail(todo), normalized, seen_symbols)
             ELSE IF _is_valid_symbol_format(clean_symbol) /\ clean_symbol \notin seen_symbols
             THEN NormalizeLoop(Tail(todo), Append(normalized, clean_symbol),
                                seen_symbols \cup {clean_symbol})
             ELSE NormalizeLoop(Tail(todo), normalized, seen_symbols)

_normalize_symbols_unseen(raw) ==
    SelectSeq([k \in 1..Len(raw) |-> upper(strip(raw[k]))], _is_valid_symbol_format)

\* _normalize_symbols(raw_symbols)
_normalize_symbols(raw) == NormalizeLoop(raw, <<>>, {})

\* ','.join(fields): the command line that lists the fields
RECURSIVE Join(_)
Join(fields) ==
    IF fields = <<>> THEN <<>>
    ELSE IF Len(fields) = 1 THEN fields[1]
    ELSE fields[1] \o <<",">> \o Join(Tail(fields))

\* str.split(','), the field being read in cur_field
RECURSIVE SplitLoop(_, _)
SplitLoop(str, cur_field) ==
    IF str = <<>> THEN <<cur_field>>
    ELSE IF Head(str) = "," THEN <<cur_field>> \o SplitLoop(Tail(str), <<>>)
    ELSE SplitLoop(Tail(str), Append(cur_field, Head(str)))

split(str) == SplitLoop(str, <<>>)

\* _parse_command_line_symbols(symbols)
_parse_command_line_symbols(symbols) ==
    IF symbols = <<>> \/ strip(symbols) = <<>> THEN <<>>
    ELSE SelectSeq([k \in 1..Len(split(symbols)) |-> strip(split(symbols)[k])],
                   LAMBDA f : f # <<>>)

max_command_line_stocks == 5

parse_input_counting_valid(symbols) ==
    IF symbols = <<>>
    THEN [NoParse EXCEPT !.errors = <<"must_specify_input">>]
    ELSE LET raw == _parse_command_line_symbols(symbols)
             valid_symbols == _normalize_symbols(raw)
         IN  IF Len(valid_symbols) > max_command_line_stocks
             THEN [NoParse EXCEPT !.source = "command", !.original_count = Len(raw),
                                  !.errors = <<"command_line_limit_exceeded">>]
             ELSE [symbols |-> valid_symbols,
                   source |-> "command",
                   original_count |-> Len(raw),
                   valid_count |-> Len(valid_symbols),
                   errors |-> IF Len(valid_symbols) = 0
                              THEN <<"no_valid_stock_symbols">> ELSE <<>>]

\* parse_input(symbols=symbols), no file path given
parse_input(symbols) ==
    IF symbols = <<>>
    THEN [NoParse EXCEPT !.errors = <<"must_specify_input">>]
    ELSE LET raw == _parse_command_line_symbols(symbols)
             valid_symbols == _normalize_symbols(raw)
         IN  IF Len(raw) > max_command_line_stocks
             THEN [NoParse EXCEPT !.source = "command", !.original_count = Len(raw),
                                  !.errors = <<"command_line_limit_exceeded">>]
             ELSE [symbols |-> valid_symbols,
                   source |-> "command",
                   original_count |-> Len(raw),
                   valid_count |-> Len(valid_symbols),
                   errors |-> IF Len(valid_symbols) = 0
                              THEN <<"no_valid_stock_symbols">> ELSE <<>>]

\* the raw symbols tried: every string of up to MaxSymbolLen characters
\* over a, A and the dot, and strings with whitespace, a digit and more
\* letters than the format allows
Chars == {"a", "A", "."}

ShortStrs == UNION {[1..n -> Chars] : n \in 0..MaxSymbolLen}

LongStrs ==
    {<<" ", "a">>, <<"A", " ">>, <<" ", "a", ".", "a", "\n">>, <<" ">>, <<"a", " ", "a">>,
     <<"A", "1">>, <<"A", "A", "A", "A", "A">>, <<"A", "A", "A", "A", "A", "A">>,
     <<"A", "A", "A", "A", "A", ".", "A", "A">>,
     <<"A", "A", "A", "A", "A", ".", "A", "A", "A">>,
     <<"A", "A", "A", "A", ".", "A", "A", "A", "A", "A", "A">>}

RawStrs == ShortStrs \cup LongStrs

\* lists of up to MaxRaw raw symbols, and command lines at and over the
\* limit of five: six entries, five of them, the same entry six times,
\* and five entries with a blank one
SixSymbols ==
    <<Str1("a"), Str2("a", "a"), Str1("A"), <<"a", ".", "a">>, <<"A", "A", "A">>, <<"A", "1">>>>

SixSame == [k \in 1..6 |-> Str1("A")]

FiveAndBlank == SubSeq(SixSymbols, 1, 5) \o <<Str1(" ")>>

RawLists ==
    UNION {[1..n -> RawStrs] : n \in 0..MaxRaw}
        \cup {SixSymbols, SubSeq(SixSymbols, 1, 5), SixSame, FiveAndBlank}

\* a direct call of _normalize_symbols
Normalize ==
    /\ ppc = "start"
    /\ parsed' = [NoParse EXCEPT !.symbols = _normalize_symbols(raw_symbols)]
    /\ ppc' = "normalized"
    /\ UNCHANGED <<raw_symbols, sizingVars, twinVars, retryVars, ctorVars, auxVars>>
    /\ UNCHANGED <<mgrVars, callVars, trackerVars, batchVars, threadVars, limiterVars>>

\* parse_input with the raw symbols as the fields of the command line
ParseInput ==
    /\ ppc = "start"
    /\ parsed' = parse_input(Join(raw_symbols))
    /\ ppc' = "parsed"
    /\ UNCHANGED <<raw_symbols, sizingVars, twinVars, retryVars, ctorVars, auxVars>>
    /\ UNCHANGED <<mgrVars, callVars, trackerVars, batchVars, threadVars, limiterVars>>

ParserInit ==
    /\ RestIdle
    /\ ThreadsIdle
    /\ SizingIdle
    /\ TwinIdle
    /\ RetryIdle
    /\ CtorIdle
    /\ AuxIdle
    /\ apc = "none"
    /\ config = ConcurrentConfig(8, 3, 10)
    /\ raw_symbols \in RawLists
    /\ parsed = NoParse
    /\ ppc = "start"

ParserNext == Normalize \/ ParseInput

ParserSpec == ParserInit /\ [][ParserNext]_vars

(* ===================== properties under ParserSpec ===================== *)
\* the strings of 1-5 letters, optionally followed by a dot and 1-2 letters
LetterStrs(lo, hi) == UNION {[1..n -> {"A"}] : n \in lo..hi}
SymbolFormat ==
    LetterStrs(1, 5) \cup {a \o <<".">> \o b : a \in LetterStrs(1, 5), b \in LetterStrs(1, 2)}

\* the upper-cased, trimmed form of a raw symbol
CleanForm(str) == upper(strip(str))

\* where a symbol first occurs among the raw symbols, in clean form
FirstAt(symbol) ==
    CHOOSE k \in 1..Len(raw_symbols) :
        /\ CleanForm(raw_symbols[k]) = symbol
        /\ \A j \in 1..(k - 1) : CleanForm(raw_symbols[j]) # symbol

\* C20: the symbol list the InputParser produces contains no symbol twice;
\* every element is the upper-cased, trimmed form of an input and has the
\* format of 1-5 letters optionally followed by a dot and 1-2 letters;
\* invalid entries are dropped and _normalize_symbols keeps every valid
\* one; the order is that of first occurrence; and normalizing the list
\* again returns it unchanged
C20_NormalizedSymbols ==
    ppc \in {"normalized", "parsed"} =>
        LET out == parsed.symbols
        IN  /\ IsUnique(out)
            /\ \A i \in 1..Len(out) :
                 /\ \E k \in 1..Len(raw_symbols) : out[i] = CleanForm(raw_symbols[k])
                 /\ out[i] \in SymbolFormat
            /\ \A i, j \in 1..Len(out) : i < j => FirstAt(out[i]) < FirstAt(out[j])
            /\ ppc = "normalized" =>
                 \A k \in 1..Len(raw_symbols) :
                     CleanForm(raw_symbols[k]) \in SymbolFormat =>
                         \E i \in 1..Len(out) : out[i] = CleanForm(raw_symbols[k])
            /\ _normalize_symbols(out) = out

\* a list with lower-case symbols, a duplicate in upper case and an entry
\* with a digit was normalized to four symbols
C20_Witness ==
    /\ ppc = "normalized"
    /\ raw_symbols = SixSymbols
    /\ parsed.symbols = <<Str1("A"), Str2("A", "A"), <<"A", ".", "A">>, <<"A", "A", "A">>>>

\* the comma-separated entries of the command line that are not blank
NonEmptyEntries == {k \in 1..Len(raw_symbols) : strip(raw_symbols[k]) # <<>>}

ReturnValues == {"buy", "hold"}
RaisedTexts == {"api error", "no data", ""}

\* an entry of the frame's log
Event(ev, attempt, text, secs) == [ev |-> ev, attempt |-> attempt, text |-> text, secs |-> secs]

RetryFrame == UNCHANGED <<mgrVars, callVars, trackerVars, batchVars, threadVars, limiterVars,
                          sizingVars, twinVars, parserVars, ctorVars, auxVars, retry_delay>>

RetryFrameKeepingRunning ==
    /\ UNCHANGED <<config, executor, futures>>
    /\ UNCHANGED <<callVars, trackerVars, batchVars, threadVars, limiterVars>>
    /\ UNCHANGED <<sizingVars, twinVars, parserVars, ctorVars, auxVars, retry_delay>>

\* lines 203-211: the symbol joins _running_tasks and the loop over
\* range(1, max_retries + 1) starts
RetryEnter ==
    /\ frame.pc = "enter"
    /\ running_tasks' = running_tasks \cup {frame.symbol}
    /\ frame' = [frame EXCEPT !.pc = "acquire", !.attempt = 1]
    /\ RetryFrameKeepingRunning

\* line 214: self.rate_limiter.acquire() returns with a permit
RetryAcquire ==
    /\ frame.pc = "acquire"
    /\ frame' = [frame EXCEPT !.pc = "call",
                              !.log = Append(@, Event("permit", frame.attempt, "", 0))]
    /\ RetryFrame

SuccessResultFirstAttempt(symbol, value, attempt) == TaskResult(symbol, TRUE, value, "none", 1)

\* lines 225-231: the TaskResult of a successful attempt
SuccessResultOf(symbol, value, attempt) ==
    [SuccessResult(symbol, attempt) EXCEPT !.result = value]

\* lines 217-231: task_func(symbol) is invoked and returns a value
RetryReturns(value) ==
    /\ frame.pc = "call"
    /\ running_tasks' = running_tasks \ {frame.symbol}
    /\ frame' = [frame EXCEPT !.pc = "done",
                              !.result = SuccessResultOf(frame.symbol, value, frame.attempt),
                              !.log = @ \o <<Event("invoke", frame.attempt, "", 0),
                                             Event("return", frame.attempt, value, 0)>>]
    /\ RetryFrameKeepingRunning

\* last_error or "Unknown error", for a str or None
OrUnknownError(last_error) ==
    IF last_error \in {"none", ""} THEN "Unknown error" ELSE last_error

RetryRaisesKeepingFirst(text) ==
    /\ frame.pc = "call"
    /\ LET f == [frame EXCEPT !.last_error = IF @ = "none" THEN text ELSE @,
                              !.log = @ \o <<Event("invoke", frame.attempt, "", 0),
                                             Event("raise", frame.attempt, text, 0)>>]
       IN  IF frame.attempt < config.max_retries
           THEN /\ frame' = [f EXCEPT !.pc = "backoff"]
                /\ UNCHANGED running_tasks
           ELSE /\ frame' = [f EXCEPT !.pc = "done",
                                      !.result = FailedResult(f.symbol, OrUnknownError(f.last_error),
                                                              config.max_retries)]
                /\ running_tasks' = running_tasks \ {frame.symbol}
    /\ RetryFrameKeepingRunning

\* lines 217 and 233-256: task_func(symbol) is invoked and raises; the
\* text is kept in last_error; with attempts left the thread goes on to
\* sleep, otherwise it leaves the loop, the symbol leaves _running_tasks
\* and the failed TaskResult is returned
RetryRaises(text) ==
    /\ frame.pc = "call"
    /\ LET f == [frame EXCEPT !.last_error = text,
                              !.log = @ \o <<Event("invoke", frame.attempt, "", 0),
                                             Event("raise", frame.attempt, text, 0)>>]
       IN  IF frame.attempt < config.max_retries
           THEN /\ frame' = [f EXCEPT !.pc = "backoff"]
                /\ UNCHANGED running_tasks
           ELSE /\ frame' = [f EXCEPT !.pc = "done",
                                      !.result = FailedResult(f.symbol, OrUnknownError(f.last_error),
                                                              config.max_retries)]
                /\ running_tasks' = running_tasks \ {frame.symbol}
    /\ RetryFrameKeepingRunning

RetrySleepThenCall ==
    /\ frame.pc = "backoff"
    /\ frame' = [frame EXCEPT !.pc = "call", !.attempt = @ + 1,
                              !.log = Append(@, Event("sleep", frame.attempt, "",
                                                      retry_delay * frame.attempt))]
    /\ RetryFrame

RetrySleepConstant ==
    /\ frame.pc = "backoff"
    /\ frame' = [frame EXCEPT !.pc = "acquire", !.attempt = @ + 1,
                              !.log = Append(@, Event("sleep", frame.attempt, "", retry_delay))]
    /\ RetryFrame

\* lines 238-239: time.sleep(retry_delay * attempt), then the next
\* iteration of the loop
RetrySleep ==
    /\ frame.pc = "backoff"
    /\ frame' = [frame EXCEPT !.pc = "acquire", !.attempt = @ + 1,
                              !.log = Append(@, Event("sleep", frame.attempt, "",
                                                      retry_delay * frame.attempt))]
    /\ RetryFrame

\* max_retries up to three, the default, so that a second back-off occurs
RetryConfigs ==
    {ConcurrentConfig(MaxWorkers, mr, BatchSize) : mr \in 1..(MaxRetries + 1)}

\* a manager with max_retries >= 1 and a retry_delay; a pool thread is
\* about to run _execute_task_with_retry(symbol, task_func, None)
RetryInit ==
    /\ RestIdle
    /\ ThreadsIdle
    /\ SizingIdle
    /\ TwinIdle
    /\ ParserIdle
    /\ CtorIdle
    /\ AuxIdle
    /\ apc = "none"
    /\ config \in RetryConfigs
    /\ retry_delay \in 1..MaxInterval
    /\ frame \in {Frame(symbol) : symbol \in Symbols}

RetryNext ==
    \/ RetryEnter
    \/ RetryAcquire
    \/ \E value \in ReturnValues : RetryReturns(value)
    \/ \E text \in RaisedTexts : RetryRaises(text)
    \/ RetrySleep

RetrySpec == RetryInit /\ [][RetryNext]_vars

(* ===================== properties under RetrySpec ====================== *)
\* the positions of the log with the given kind of entry
Entries(ev) == {k \in 1..Len(frame.log) : frame.log[k].ev = ev}

\* C22: every invocation of the task function is immediately preceded by
\* a permit the same thread obtained for that attempt, on the first
\* attempt and on every retry: no invocation without a fresh permit, and
\* when the task is done it has consumed as many permits as it made
\* invocations
C22_PermitBeforeEveryInvocation ==
    /\ \A k \in Entries("invoke") :
           /\ k > 1
           /\ frame.log[k - 1].ev = "permit"
           /\ frame.log[k - 1].attempt = frame.log[k].attempt
    /\ \A k \in Entries("permit") :
           k < Len(frame.log) => frame.log[k + 1].ev = "invoke"
    /\ frame.pc = "done" => Cardinality(Entries("permit")) = Cardinality(Entries("invoke"))

\* a task finished after a retry: two permits, two invocations
C22_Witness ==
    /\ frame.pc = "done"
    /\ Cardinality(Entries("invoke")) = 2
    /\ Cardinality(Entries("permit")) = 2

\* the attempts whose invocation raised, and the value returned if any
RaisedAttempts == {frame.log[k].attempt : k \in Entries("raise")}

\* C23: a task whose function fails on attempts 1..k-1 and succeeds on
\* attempt k <= max_retries yields a successful TaskResult with attempts
\* = k and the function's return value as result, after exactly k
\* invocations; a task whose function always fails is invoked exactly
\* max_retries times and never more
C23_AttemptsCountInvocations ==
    /\ Cardinality(Entries("invoke")) <= config.max_retries
    /\ frame.pc = "done" =>
           LET last == frame.log[Len(frame.log)]
               invocations == Cardinality(Entries("invoke"))
           IN  IF last.ev = "return"
               THEN /\ RaisedAttempts = 1..(last.attempt - 1)
                    /\ frame.result.success
                    /\ frame.result.attempts = last.attempt
                    /\ frame.result.result = last.text
                    /\ invocations = last.attempt
               ELSE /\ RaisedAttempts = 1..config.max_retries
                    /\ ~frame.result.success
                    /\ invocations = config.max_retries

\* a task failed once and then returned "hold"
C23_Witness ==
    /\ frame.pc = "done"
    /\ config.max_retries = 2
    /\ RaisedAttempts = {1}
    /\ frame.result = TaskResult(frame.symbol, TRUE, "hold", "none", 2)

\* C24: after a failed attempt a < max_retries the thread sleeps
\* retry_delay x a before it starts attempt a + 1, and after the failed
\* attempt max_retries it returns the failed result without sleeping
C24_LinearBackoff ==
    /\ \A k \in Entries("raise") :
           LET a == frame.log[k].attempt
           IN  IF a < config.max_retries
               THEN /\ k = Len(frame.log) => frame.pc = "backoff"
                    /\ k < Len(frame.log) =>
                           /\ frame.log[k + 1].ev = "sleep"
                           /\ frame.log[k + 1].secs = retry_delay * a
                    /\ k + 1 < Len(frame.log) =>
                           /\ frame.log[k + 2].ev = "permit"
                           /\ frame.log[k + 2].attempt = a + 1
               ELSE /\ k = Len(frame.log)
                    /\ frame.pc = "done"
                    /\ ~frame.result.success
    /\ \A k \in Entries("sleep") : k > 1 /\ frame.log[k - 1].ev = "raise"
    /\ \A k \in Entries("permit") :
           frame.log[k].attempt > 1 => frame.log[k - 1].ev = "sleep"

\* with retry_delay 2 a task slept 2 after its first failure and 4 after
\* its second, and failed for good at its third attempt
C24_Witness ==
    /\ retry_delay = 2
    /\ config.max_retries = 3
    /\ \E k \in Entries("sleep") : frame.log[k].attempt = 1 /\ frame.log[k].secs = 2
    /\ \E k \in Entries("sleep") : frame.log[k].attempt = 2 /\ frame.log[k].secs = 4
    /\ Cardinality(Entries("sleep")) = 2
    /\ frame.pc = "done"
    /\ ~frame.result.success

\* the text of the exception raised at the given attempt
TextRaisedAt(attempt) ==
    frame.log[CHOOSE k \in Entries("raise") : frame.log[k].attempt = attempt].text

FailedByLoop == frame.pc = "done" /\ ~frame.result.success

\* C25 as stated: the error of a failed TaskResult of the retry loop is the
\* text of the last attempt's exception, it is never empty, and the
\* result has no payload
C25_LastErrorText ==
    FailedByLoop =>
        /\ frame.result.error = TextRaisedAt(config.max_retries)
        /\ frame.result.error # ""
        /\ frame.result.result = "none"

\* C25 amended: the error is the text of the last attempt's exception, or
\* "Unknown error" when that text is empty; it is never empty and the
\* result has no payload
C25_LastErrorTextOrUnknown ==
    FailedByLoop =>
        /\ frame.result.error =
               IF TextRaisedAt(config.max_retries) = "" THEN "Unknown error"
               ELSE TextRaisedAt(config.max_retries)
        /\ frame.result.error # ""
        /\ frame.result.error # "none"
        /\ frame.result.result = "none"

\* a task failed with "api error" and then with "no data", which is the
\* error of its result
C25_Witness ==
    /\ FailedByLoop
    /\ config.max_retries = 2
    /\ TextRaisedAt(1) = "api error"
    /\ TextRaisedAt(2) = "no data"
    /\ frame.result.error = "no data"

(* ========= constructing a ConcurrentManager (ManagerSpec) ========= *)
\* 1.0 / q for a quotient q; dividing by zero raises ZeroDivisionError
Reciprocal(q) == Rate(q.den, q.num)

\* q > 0 for a quotient with a positive denominator
Positive(q) == q.num > 0 /\ q.den > 0

\* APIRateLimiter.__init__(calls_per_second): the min_interval it keeps
APIRateLimiterInterval(calls_per_second) ==
    IF Positive(calls_per_second) THEN Reciprocal(calls_per_second) ELSE Rate(0, 1)

\* ConcurrentManager.__init__(config), line 69:
\* APIRateLimiter(1.0 / self.config.api_rate_limit)
ManagerInit ==
    /\ built.state = "new"
    /\ built' = IF Defined(Reciprocal(built.api_rate_limit))
                THEN Manager(built.api_rate_limit, "constructed",
                             APIRateLimiterInterval(Reciprocal(built.api_rate_limit)))
                ELSE Manager(built.api_rate_limit, "raised", Rate(0, 1))
    /\ UNCHANGED <<mgrVars, callVars, trackerVars, batchVars, threadVars, limiterVars>>
    /\ UNCHANGED <<sizingVars, twinVars, parserVars, retryVars, auxVars>>

\* a config whose api_rate_limit is any number of hundredths of a second
\* from 0 on
ManagerSpecInit ==
    /\ RestIdle
    /\ ThreadsIdle
    /\ SizingIdle
    /\ TwinIdle
    /\ ParserIdle
    /\ RetryIdle
    /\ AuxIdle
    /\ apc = "none"
    /\ config = ConcurrentConfig(8, 3, 10)
    /\ built \in {Manager(Rate(h, 100), "new", Rate(0, 1)) : h \in 0..MaxRateLimit}

ManagerNext == ManagerInit

ManagerSpec == ManagerSpecInit /\ [][ManagerNext]_vars

(* ===================== properties under ManagerSpec ==================== *)
\* C30: for every api_rate_limit >= 0, 0 included, constructing a
\* ConcurrentManager succeeds and the interval its rate limiter enforces
\* between permits equals api_rate_limit seconds, 0 meaning that
\* acquire() never waits
C30_AnyRateLimitConstructs ==
    built.state \notin {"none", "new"} =>
        /\ built.state = "constructed"
        /\ RateEq(built.min_interval, built.api_rate_limit)

\* the part of C30 about positive values: the manager is constructed and
\* the interval is api_rate_limit
PositiveRateLimitConstructs ==
    (built.state \notin {"none", "new"} /\ Positive(built.api_rate_limit)) =>
        /\ built.state = "constructed"
        /\ RateEq(built.min_interval, built.api_rate_limit)


\* the number of AnalysisTasks in a status
TasksIn(status) == Cardinality(WithStatus(tasks, status))

\* C36: during a tracked analyze_stocks run with unique symbols each of
\* pending, running, completed and failed is >= 0 in every snapshot and
\* equals the number of AnalysisTasks in that status
C36_CountersCountTasks ==
    tracker =>
        /\ stats.pending >= 0 /\ stats.pending = TasksIn("pending")
        /\ stats.running >= 0 /\ stats.running = TasksIn("running")
        /\ stats.completed >= 0 /\ stats.completed = TasksIn("completed")
        /\ stats.failed >= 0 /\ stats.failed = TasksIn("failed")

\* mid-run: of two tasks one has completed and the other is running
C36_Witness ==
    /\ tracker
    /\ apc = "executing"
    /\ stats.running = 1
    /\ stats.completed = 1
    /\ TasksIn("running") = 1

\* C37: when a tracked analyze_stocks call returns, the tracker's final
\* snapshot agrees with the returned BatchAnalysisResult: pending = 0,
\* running = 0, completed = number of successes, failed = number of
\* failure entries, successes + failures = total_stocks = len(symbols)
C37_TrackerAgreesWithResult ==
    (tracker /\ apc = "done") =>
        /\ stats.pending = 0
        /\ stats.running = 0
        /\ stats.completed = Len(batch_result.successful)
        /\ stats.failed = Len(batch_result.failed)
        /\ Len(batch_result.successful) + Len(batch_result.failed) = batch_result.total_stocks
        /\ batch_result.total_stocks = Len(outcome.symbols)
        /\ batch_result.total_stocks = stats.total_tasks

\* a tracked run of two symbols has returned one success and one failure
C37_Witness ==
    /\ tracker
    /\ apc = "done"
    /\ batch_result.total_stocks = 2
    /\ Len(batch_result.successful) = 1
    /\ stats.failed = 1

(* ============ LiveBatchSpec: analyze_stocks under fair threads ========= *)
\* The pool threads, the thread inside execute_concurrent and the thread
\* of analyze_stocks are operating-system threads: a step that stays
\* possible is eventually taken.  Weak fairness of Worker includes that a
\* called task function returns or raises.
LiveBatchSpec ==
    /\ BatchInit
    /\ [][BatchNext]_vars
    /\ WF_vars(Worker)
    /\ WF_vars(BatchCollector)
    /\ WF_vars(Analyzer)

\* ProgressTracker.is_completed
is_completed == stats.pending = 0 /\ stats.running = 0

\* analyze_stocks has ended, by return or by exception
AnalyzeEnded == apc \in {"done", "raised"}

\* every future of the pool, whenever it waits in acquire(), leaves it
AcquireReturns ==
    \A i \in 1..NumSymbols :
        [](i \in FutureIds /\ futures[i].pc = "acquire"
              => <>(i \in FutureIds /\ futures[i].pc # "acquire"))

\* every submitted work item leaves the pool
TasksEnd == [](apc = "executing" => <>PoolDrained)

\* every submitted task of a tracked run gets the status completed or
\* failed
TasksReachTerminal == [](tracker /\ apc = "executing" => <>AllTerminal)

\* C28: when every task function terminates and the threads are scheduled
\* fairly, every execute_concurrent call eventually returns, every
\* acquire() eventually returns, every submitted task eventually reaches
\* a terminal state, and once analyze_stocks has returned is_completed()
\* is true
C28_EverythingReturnsAndCompletes ==
    /\ [](cpc = "collect" => <>(outcome.kind = "returned"))
    /\ AcquireReturns
    /\ TasksEnd
    /\ TasksReachTerminal
    /\ [](apc = "done" /\ tracker => is_completed)

\* what holds of the code: every call ends, by return or by TimeoutError,
\* every acquire() returns, every work item leaves the pool,
\* analyze_stocks ends, and the tracker is completed whenever
\* analyze_stocks returned a result
EverythingEnds ==
    /\ [](cpc = "collect" => <>(outcome.kind # "none"))
    /\ AcquireReturns
    /\ TasksEnd
    /\ <>AnalyzeEnded
    /\ [](apc = "done" /\ tracker => is_completed)

\* when the task function is prompt the call returns and every task is
\* terminal
PromptRunsReturn ==
    /\ [](~may_be_slow /\ cpc = "collect" => <>(outcome.kind = "returned"))
    /\ [](~may_be_slow /\ tracker /\ apc = "executing" => <>AllTerminal)

\* the tracker is left incomplete only by the TimeoutError of the
\* collection loop
IncompleteOnlyAfterTimeout ==
    AnalyzeEnded /\ tracker /\ ~is_completed
        => outcome.kind = "raised" /\ outcome.exc = "TimeoutError"

(* ============ LiveLimiterSpec: acquire() under fair threads ============ *)
\* the clock keeps advancing while a thread sleeps in acquire()
SleepTick ==
    /\ \E t \in Threads : lpc[t] = "sleeping" /\ now < wake[t]
    /\ now' = now + 1
    /\ UNCHANGED <<last_call_time, rlock, lpc, wake, grants>>
    /\ LimiterFrame

LimiterStep == \E t \in Threads : AcquireLock(t) \/ ReadClock(t) \/ WakeUp(t) \/ Stamp(t)

LiveLimiterSpec ==
    /\ LimiterInit
    /\ [][LimiterNext \/ SleepTick]_vars
    /\ WF_vars(LimiterStep)
    /\ WF_vars(SleepTick)

\* every acquire() call returns: the limiter's lock is the only lock taken
\* inside acquire and it is released after the sleep
AcquireEventuallyReturns ==
    \A t \in Threads : [](lpc[t] # "idle" => <>(lpc[t] = "idle"))

(* ========= DisplaySpec: analyze_stocks with its progress display ======= *)
DisplayFrame == UNCHANGED <<mgrVars, callVars, trackerVars, batchVars, threadVars, limiterVars,
                            sizingVars, twinVars, parserVars, retryVars, ctorVars,
                            estimateVars, fleetVars>>

\* start_display, right after initialize: _stop_display = False and the
\* daemon thread starts in _display_loop
start_display ==
    /\ tracker
    /\ apc = "executing"
    /\ display.main = "none"
    /\ display' = [display EXCEPT !.stop = FALSE, !.thread = "check", !.main = "shown"]
    /\ DisplayFrame

\* no step of the run is taken between initialize and start_display
DisplayStarted == ~(tracker /\ apc = "executing" /\ display.main = "none")

\* the finally clause of analyze_stocks, reached by return and by
\* exception: stop_display sets _stop_display and calls join(timeout=1.0)
stop_display ==
    /\ tracker
    /\ apc \in {"done", "raised"}
    /\ display.main = "shown"
    /\ display' = [display EXCEPT !.stop = TRUE, !.main = "joining"]
    /\ DisplayFrame

\* join(timeout=1.0) returns when the thread has ended or when the second
\* has passed, whichever comes first
JoinThread ==
    /\ display.main = "joining"
    /\ display' = [display EXCEPT !.main = "stopped", !.joined = display.thread = "ended"]
    /\ DisplayFrame

\* after the finally clause: print_summary on a return, which prints its
\* lines one after the other; an exception leaves analyze_stocks
AfterFinally ==
    /\ \/ /\ display.main = "stopped"
          /\ display' = [display EXCEPT !.main = IF apc = "done" THEN "summary" ELSE "raised"]
       \/ /\ display.main = "summary"
          /\ display' = [display EXCEPT !.main = "returned"]
    /\ DisplayFrame

\* while not self._stop_display: the flag is read; the interval has passed
\* (a line is due) or it has not
LoopTest ==
    /\ display.thread = "check"
    /\ \E due \in BOOLEAN :
           display' = [display EXCEPT !.thread = IF display.stop THEN "ended"
                                                 ELSE IF due THEN "render" ELSE "sleep"]
    /\ DisplayFrame

\* _update_display: get_current_stats under the lock, then the progress
\* line is printed
_update_display ==
    /\ display.thread = "render"
    /\ display' = [display EXCEPT !.thread = "sleep",
                                  !.line = ProgressStatsCopy(stats, 0),
                                  !.last_render_at = display.main]
    /\ DisplayFrame

\* time.sleep(0.1) returns
LoopSleep ==
    /\ display.thread = "sleep"
    /\ display' = [display EXCEPT !.thread = "check"]
    /\ DisplayFrame

_display_loop == LoopTest \/ _update_display \/ LoopSleep

DisplayCaller == start_display \/ stop_display \/ JoinThread \/ AfterFinally

\* the run of BatchSpec with the display started before its first step
TrackedRun == DisplayStarted /\ BatchNext

DisplayNext == TrackedRun \/ DisplayCaller \/ _display_loop

DisplaySpec == BatchInit /\ [][DisplayNext]_vars

(* ===================== properties under DisplaySpec ==================== *)
\* stop_display has returned
StopReturned == display.main \in {"stopped", "summary", "returned", "raised"}

\* the finally clause signals the loop on the return and on the exception
StopSignalledOnEveryExit ==
    /\ StopReturned => display.stop
    /\ (tracker /\ apc \in {"done", "raised"}) => ENABLED stop_display \/ display.stop

\* the display loop changes no counter and no task status
DisplayOnlyReads == [][_display_loop => UNCHANGED <<tasks, stats>>]_vars

\* once stop_display has returned the loop has ended and no progress line
\* is printed any more
QuietAfterStop ==
    /\ StopReturned => display.thread = "ended"
    /\ display.last_render_at \notin {"stopped", "summary", "returned", "raised"}

\* C32: analyze_stocks with show_progress signals the display loop to stop
\* on every exit path of the concurrent execution; once stop_display has
\* returned the loop has terminated and renders nothing more, so the
\* summary is never interleaved with a progress line; the loop only reads
\* snapshots and changes no counter and no task status
C32_DisplayStopsBeforeSummary ==
    /\ []StopSignalledOnEveryExit
    /\ []QuietAfterStop
    /\ DisplayOnlyReads

\* what holds of the code: the signal on every exit path, a loop that only
\* reads, and silence after stop_display whenever join found the thread
\* ended
QuietWhenJoined ==
    /\ []StopSignalledOnEveryExit
    /\ [](StopReturned /\ display.joined =>
             display.thread = "ended" /\ display.last_render_at \notin {"stopped", "summary", "returned", "raised"})
    /\ DisplayOnlyReads

\* a progress line is printed between the lines of the summary
TornSummary == display.last_render_at = "summary"

(* ========== EstimateSpec: ProgressStats.estimated_remaining ============ *)
\* timedelta / int: the quotient in whole microseconds, rounded to the
\* nearest, halves to the even one
DivNearest(a, b) ==
    LET q == a \div b
        r == a % b
    IN  IF 2 * r > b \/ (2 * r = b /\ q % 2 = 1) THEN q + 1 ELSE q

\* ProgressStats.elapsed_time: datetime.now() - start_time, None without
\* a start_time
elapsed_time(st, clock) ==
    IF st.start_time # -1 THEN Timedelta(clock - st.start_time) ELSE NoTimedelta

\* the truth value of an Optional[timedelta]: None and timedelta(0) are
\* false
TruthyDelta(d) == d.defined /\ d.us # 0

remaining_tasks_ignoring_failed(st) == st.total_tasks - st.completed

remaining_tasks(st) == st.total_tasks - st.completed - st.failed

\* ProgressStats.estimated_remaining
estimated_remaining(st, clock) ==
    IF st.start_time = -1 \/ st.completed = 0
    THEN NoTimedelta
    ELSE IF ~TruthyDelta(elapsed_time(st, clock))
    THEN NoTimedelta
    ELSE Timedelta(DivNearest(elapsed_time(st, clock).us, st.completed) * remaining_tasks(st))

\* the snapshots a tracker hands out: the counters of a fresh tracker, or
\* non-negative counters that add up to total_tasks with the start_time
\* that initialize set
Snapshots ==
    {NoStats} \cup
    {st \in [total_tasks : 0..MaxTotal, completed : 0..MaxTotal, failed : 0..MaxTotal,
             running : 0..MaxTotal, pending : 0..MaxTotal, start_time : {0}] :
         st.pending + st.running + st.completed + st.failed = st.total_tasks}

\* snapshot.estimated_remaining is read
ReadEstimate ==
    /\ estimate.pc = "new"
    /\ estimate' = [estimate EXCEPT !.value = estimated_remaining(estimate.stats, estimate.clock),
                                    !.pc = "read"]
    /\ UNCHANGED <<mgrVars, callVars, trackerVars, batchVars, threadVars, limiterVars>>
    /\ UNCHANGED <<sizingVars, twinVars, parserVars, retryVars, ctorVars, displayVars, fleetVars>>

EstimateInit ==
    /\ RestIdle
    /\ ThreadsIdle
    /\ SizingIdle
    /\ TwinIdle
    /\ ParserIdle
    /\ RetryIdle
    /\ CtorIdle
    /\ DisplayIdle
    /\ FleetIdle
    /\ apc = "none"
    /\ config = ConcurrentConfig(8, 3, 10)
    /\ \E st \in Snapshots, clock \in 0..MaxElapsed :
           estimate = Estimate(st, clock, NoTimedelta, "new")

EstimateNext == ReadEstimate

EstimateSpec == EstimateInit /\ [][EstimateNext]_vars

(* ==================== properties under EstimateSpec ==================== *)
\* (elapsed / completed) x (total_tasks - completed - failed), in the
\* timedelta arithmetic of the source
Extrapolated(st, clock) ==
    DivNearest(clock - st.start_time, st.completed) * (st.total_tasks - st.completed - st.failed)

AllTasksTerminal(st) == st.pending = 0 /\ st.running = 0

\* C33 as stated: estimated_remaining is None whenever completed == 0 and
\* otherwise equals (elapsed / completed) x (total_tasks - completed -
\* failed), which is zero once every task is terminal and never negative
C33_EstimateDefinedOnceCompleted ==
    estimate.pc = "read" =>
        LET st == estimate.stats
            v == estimate.value
        IN  IF st.completed = 0
            THEN ~v.defined
            ELSE /\ v.defined
                 /\ v.us = Extrapolated(st, estimate.clock)
                 /\ v.us >= 0
                 /\ AllTasksTerminal(st) => v.us = 0

\* C33 amended: estimated_remaining is None whenever completed == 0 and
\* also while no time has elapsed since start_time; otherwise it equals
\* (elapsed / completed) x (total_tasks - completed - failed), which is
\* zero once every task is terminal and never negative
C33_EstimateDefinedOnceCompletedAndElapsed ==
    estimate.pc = "read" =>
        LET st == estimate.stats
            v == estimate.value
        IN  IF st.completed = 0 \/ estimate.clock = st.start_time
            THEN ~v.defined
            ELSE /\ v.defined
                 /\ v.us = Extrapolated(st, estimate.clock)
                 /\ v.us >= 0
                 /\ AllTasksTerminal(st) => v.us = 0

\* an estimate read while one of three tasks has completed, one has failed
\* and one is running, three microseconds after the start: 3 x 1
C33_Witness ==
    /\ estimate.pc = "read"
    /\ estimate.stats.completed = 1
    /\ estimate.stats.failed = 1
    /\ estimate.stats.running = 1
    /\ estimate.clock = 3
    /\ estimate.value = Timedelta(3)

(* ============ FleetSpec: two ConcurrentManager instances =============== *)
Managers == {1, 2}

\* two pool threads per manager
PoolThreads == {1, 2}

FleetWorkers == Managers \X PoolThreads

FleetFrame ==
    /\ UNCHANGED <<mgrVars, callVars, trackerVars, batchVars, threadVars, limiterVars>>
    /\ UNCHANGED <<sizingVars, twinVars, parserVars, retryVars, ctorVars, displayVars, estimateVars>>

rate_limiter_of_module(m) == 1

\* self.rate_limiter: the APIRateLimiter that __init__ of manager m made
rate_limiter(m) == m

\* APIRateLimiter.__init__ as called by ConcurrentManager.__init__
NewLimiter(interval) ==
    [min_interval |-> interval, last_call_time |-> 0, lock |-> <<>>, stamped_in |-> 0]

Idle(m) == \A k \in PoolThreads : fleet.w[<<m, k>>].pc = "idle"

\* __enter__: self.executor = ThreadPoolExecutor(...), a new pool
FleetEnter(m) ==
    /\ fleet.pool[m] = 0
    /\ fleet' = [fleet EXCEPT !.pool[m] = fleet.pools_made + 1, !.pools_made = @ + 1]
    /\ FleetFrame

\* __exit__: the pool is shut down and dropped (-1: the scope is over)
FleetExit(m) ==
    /\ fleet.pool[m] > 0
    /\ Idle(m)
    /\ fleet' = [fleet EXCEPT !.pool[m] = -1]
    /\ FleetFrame

\* an execute_concurrent or execute_batched call starts in the scope, after
\* the one before it has returned
FleetExecute(m) ==
    /\ fleet.pool[m] > 0
    /\ Idle(m)
    /\ fleet.calls[m] < MaxCalls
    /\ fleet' = [fleet EXCEPT !.calls[m] = @ + 1]
    /\ FleetFrame

\* a pool thread of manager m calls self.rate_limiter.acquire()
FleetAcquireCall(m, k) ==
    /\ fleet.pool[m] > 0
    /\ fleet.calls[m] >= 1
    /\ fleet.w[<<m, k>>].pc = "idle"
    /\ fleet.permits + Cardinality({x \in FleetWorkers : fleet.w[x].pc # "idle"}) < MaxGrants
    /\ fleet' = [fleet EXCEPT !.w[<<m, k>>].pc = "wait"]
    /\ FleetFrame

\* `with self._lock` of the limiter is entered and the clock is read;
\* time.sleep(sleep_time) starts when less than min_interval has passed
\* since last_call_time
FleetAcquireLock(m, k) ==
    /\ fleet.w[<<m, k>>].pc = "wait"
    /\ fleet.limiter[rate_limiter(m)].lock = <<>>
    /\ LET l == fleet.limiter[rate_limiter(m)]
           time_since_last_call == fleet.clock - l.last_call_time
       IN  fleet' = [fleet EXCEPT
                        !.limiter[rate_limiter(m)].lock = <<m, k>>,
                        !.w[<<m, k>>] =
                            IF time_since_last_call < l.min_interval
                            THEN [pc |-> "sleeping",
                                  wake |-> fleet.clock + SleepTime(l.min_interval, time_since_last_call)]
                            ELSE [pc |-> "stamp", wake |-> @.wake]]
    /\ FleetFrame

\* time.sleep returns, not before the requested time has passed
FleetWakeUp(m, k) ==
    /\ fleet.w[<<m, k>>].pc = "sleeping"
    /\ fleet.clock >= fleet.w[<<m, k>>].wake
    /\ fleet' = [fleet EXCEPT !.w[<<m, k>>].pc = "stamp"]
    /\ FleetFrame

\* self.last_call_time = time.time(); the lock is released and acquire
\* returns
FleetStamp(m, k) ==
    /\ fleet.w[<<m, k>>].pc = "stamp"
    /\ fleet' = [fleet EXCEPT !.limiter[rate_limiter(m)] =
                                  [@ EXCEPT !.last_call_time = fleet.clock, !.lock = <<>>,
                                            !.stamped_in = fleet.calls[m]],
                              !.w[<<m, k>>].pc = "idle",
                              !.permits = @ + 1]
    /\ FleetFrame

\* the clock advances
FleetTick ==
    /\ fleet.clock < MaxInterval + 1 + FleetTicks
    /\ fleet' = [fleet EXCEPT !.clock = @ + 1]
    /\ FleetFrame

\* two managers constructed from configs with the same api_rate_limit
FleetInit ==
    /\ RestIdle
    /\ ThreadsIdle
    /\ SizingIdle
    /\ TwinIdle
    /\ ParserIdle
    /\ RetryIdle
    /\ CtorIdle
    /\ DisplayIdle
    /\ EstimateIdle
    /\ apc = "none"
    /\ config = ConcurrentConfig(8, 3, 10)
    /\ \E interval \in 1..MaxInterval :
           fleet = [clock |-> MaxInterval + 1,
                    limiter |-> [m \in Managers |-> NewLimiter(interval)],
                    pool |-> [m \in Managers |-> 0],
                    calls |-> [m \in Managers |-> 0],
                    pools_made |-> 0,
                    permits |-> 0,
                    w |-> [x \in FleetWorkers |-> [pc |-> "idle", wake |-> 0]]]

FleetNext ==
    \/ \E m \in Managers : FleetEnter(m)
    \/ \E m \in Managers : FleetExit(m)
    \/ \E m \in Managers : FleetExecute(m)
    \/ \E m \in Managers, k \in PoolThreads : FleetAcquireCall(m, k)
    \/ \E m \in Managers, k \in PoolThreads : FleetAcquireLock(m, k)
    \/ \E m \in Managers, k \in PoolThreads : FleetWakeUp(m, k)
    \/ \E m \in Managers, k \in PoolThreads : FleetStamp(m, k)
    \/ FleetTick

FleetSpec == FleetInit /\ [][FleetNext]_vars

(* ====================== properties under FleetSpec ===================== *)
\* the workers of manager m take no part in the step
Untouched(m) == \A k \in PoolThreads : fleet'.w[<<m, k>>] = fleet.w[<<m, k>>]

\* a limiter changes only in a step of a worker of its own manager
LimitersIsolated ==
    [][\A m \in Managers : Untouched(m) => fleet'.limiter[m] = fleet.limiter[m]]_vars

\* a waiting worker enters as soon as its own manager's limiter is free,
\* and a sleeping worker sleeps until min_interval after its own manager's
\* last permit, whatever the other manager does
DelayedByOwnLimiterOnly ==
    \A m \in Managers, k \in PoolThreads :
        LET me == fleet.w[<<m, k>>]
        IN  /\ me.pc = "wait" /\ fleet.limiter[m].lock = <<>> => ENABLED FleetAcquireLock(m, k)
            /\ me.pc = "sleeping" =>
                   me.wake = fleet.limiter[m].last_call_time + fleet.limiter[m].min_interval
            /\ me.pc \in {"sleeping", "stamp"} => fleet.limiter[m].lock = <<m, k>>

\* within one manager every permit, of whichever worker and in whichever
\* execution call, comes at least min_interval after the one before it
SharedWithinManager ==
    [][\A m \in Managers :
           fleet'.limiter[m].last_call_time # fleet.limiter[m].last_call_time =>
               fleet'.limiter[m].last_call_time - fleet.limiter[m].last_call_time
                   >= fleet.limiter[m].min_interval]_vars

\* no pool belongs to two managers
PoolsOwned ==
    \A m, n \in Managers : m # n /\ fleet.pool[m] > 0 => fleet.pool[m] # fleet.pool[n]

\* C34: each ConcurrentManager owns its rate limiter and its pool: an
\* acquire() through one manager neither delays a permit of another
\* manager nor changes its last-permit timestamp, while within a manager
\* one limiter is shared by all workers and across the calls of the scope
C34_LimiterPerManager ==
    /\ LimitersIsolated
    /\ []DelayedByOwnLimiterOnly
    /\ SharedWithinManager
    /\ []PoolsOwned

\* a worker of manager 1 sleeps because of a permit granted in an earlier
\* execution call of manager 1, while manager 2 has granted a later permit
C34_Witness ==
    \E k \in PoolThreads :
        /\ fleet.w[<<1, k>>].pc = "sleeping"
        /\ fleet.limiter[1].stamped_in = 1
        /\ fleet.calls[1] = 2
        /\ fleet.limiter[2].last_call_time > fleet.limiter[1].last_call_time

(* ====== WideBatchSpec: analyze_stocks with more symbols than workers === *)
\* one symbol more than the smallest tier has workers
WideSymbols == [k \in 1..(create_optimized_config(1).max_workers + 1) |-> k]

WideAnalyzer ==
    \/ AnalyzeBegin(WideSymbols, TRUE)
    \/ AnalyzeExit
    \/ AnalyzeFinish

WideBatchNext == Worker \/ BatchCollector \/ WideAnalyzer

WideBatchSpec == BatchInit /\ [][WideBatchNext]_vars

(* =================== properties under WideBatchSpec ==================== *)
\* C35: during a tracked analyze_stocks run the running count of the
\* tracker, and so of every snapshot, never exceeds max_workers
C35_RunningWithinMaxWorkers ==
    tracker /\ apc # "start" => stats.running <= config.max_workers

\* what holds of the code: no more than max_workers pool threads are
\* inside _execute_task_with_retry
ActiveWithinMaxWorkers == Cardinality(Active) <= config.max_workers

====
